---------------------------- MODULE Spec2Model ----------------------------
(***************************************************************************)
(* scclust: size constrained clustering.                                   *)
(*                                                                         *)
(* Part I  : the batch NNG clusterer (nng_batch_clustering.c,              *)
(*           src/unnamed/part_001): scc_nng_clustering_batches and         *)
(*           iscc_run_nng_batches.                                         *)
(* Part II : the seed finder (src/src/nng_findseeds.c) with the digraph    *)
(*           operations it calls (src/unnamed/part_002).                   *)
(*                                                                         *)
(* Points, vertices and array positions are numbered from 0 as in the C    *)
(* code; an array is a function on 0..len-1.  TLA+ sequences (1-based)     *)
(* are only used for lists that grow.                                      *)
(***************************************************************************)
EXTENDS Integers, Sequences, FiniteSets, TLC

(***************************************************************************)
(* Bounds of the model.                                                    *)
(***************************************************************************)
\* largest clustering->num_data_points given to the batch clusterer
NumPoints == 4
\* largest size_constraint given to the batch clusterer
MaxK == 3
\* scc_Clabel is a user-serviceable typedef (part_000:64); the model draws
\* SCC_CLABEL_MAX from 1..MaxClabelMax instead of fixing it to UINT32_MAX
MaxClabelMax == 2
\* the NNGs given to the seed finder: all on SmallVertices vertices with up to
\* SmallOutDegree arcs in a row, in any order
SmallVertices == 3
SmallOutDegree == 2
\* and all on WideVertices vertices with WideOutDegree arcs or none in a row,
\* the arcs of a row in increasing order
WideVertices == 4
WideOutDegree == 2

\* digraph operations: the digraphs handed in have AlgVertices vertices and
\* at most AlgOutDegree arcs in a row; where two or three digraphs are handed
\* in they have PairVertices vertices and at most PairOutDegree arcs in a row;
\* max_out_degree is at most MaxOutDegreeCap
AlgVertices == 3
AlgOutDegree == 2
PairVertices == 2
PairOutDegree == 2
MaxOutDegreeCap == 2

VARIABLES
    \* ---- batch clusterer -------------------------------------------------
    pc,                 \* position in scc_nng_clustering_batches / iscc_run_nng_batches
    args,               \* the arguments of the call (and the compile-time label width)
    cluster_label,      \* clustering->cluster_label[]
    num_clusters,       \* clustering->num_clusters
    assigned,           \* assigned[]
    curr_point,         \* curr_point
    batch_indices,      \* batch_indices[0 .. in_batch) / [0 .. num_ok_in_batch)
    row_i,              \* i of the loop over the rows of a batch
    next_cluster_label, \* next_cluster_label
    search_done,        \* search_done
    ec,                 \* the returned scc_ErrorCode
    oracle_opened,      \* iscc_init_nn_search_object has been called
    \* ---- history (not read by the program) -------------------------------
    seeds_formed,       \* the candidates that became seeds, in order
    queried,            \* how often each point was handed to the oracle as a query
    oracle_memo,        \* the answers the oracle has given so far, when they are
                        \* kept to be repeated in a later run (else <<>>)
    results,            \* the outcomes of the runs with smaller batch sizes
    last_row,           \* candidate and row (its first k-1 entries, its last entry) of the
                        \* seed formed by the last step
    \* ---- seed finder -----------------------------------------------------
    fs_pc,              \* position in iscc_find_seeds
    nng,                \* the digraph *nng
    seed_method,        \* seed_method
    stable_findseed,    \* the build defines SCC_STABLE_FINDSEED
    out_seeds,          \* *out_seeds: seeds[0 .. count), count, capacity
    fs_ec,              \* the returned scc_ErrorCode
    marks,              \* marks[]
    not_excluded,       \* not_excluded[]
    exclusion_graph,    \* exclusion_graph
    sort,               \* sort: inwards_count, sorted_vertices, vertex_index, bucket_index
    sorted_v,           \* sorted_v (lexical: v), as a position
    upd,                \* the loops that decrease counts after a scan step: the rows
                        \* still to walk and the position in them
    examined,           \* the vertices the loop of the scan has looked at, in order
    \* ---- digraph operations ----------------------------------------------
    op_pc,              \* position of the caller of a digraph operation
    operation,          \* the operation called
    in_dgs,             \* the digraphs handed in (in_dgs[], in_dg_a and in_dg_b,
                        \* minuend_dg and subtrahend_dg, dg)
    op_args,            \* the other arguments of the call
    out_dg,             \* the digraphs handed back, by the call that made them
    \* the buffers of a call with allocations that can fail
    al_pc,              \* the allocation point the call is at
    al_in,              \* the entry point called, and what decides its path
    al_op,              \* the algebra operator under way: its name, the digraph
                        \* it makes and where it returns to
    heap,               \* the state of every buffer of the call
    al_ec,              \* the error code of the last return
    al_seeds,           \* count and capacity of out_seeds
    misused             \* the buffers read, written or freed while not allocated

batchVars == <<pc, args, cluster_label, num_clusters, assigned, curr_point,
               batch_indices, row_i, next_cluster_label, search_done, ec,
               oracle_opened, seeds_formed, queried, oracle_memo,
               results, last_row>>

seedVars == <<fs_pc, nng, seed_method, stable_findseed, out_seeds, fs_ec, marks,
              not_excluded, exclusion_graph, sort, sorted_v, upd, examined>>

algVars == <<op_pc, operation, in_dgs, op_args, out_dg>>

allocVars == <<al_pc, al_in, al_op, heap, al_ec, al_seeds, misused>>

vars == <<batchVars, seedVars, algVars, allocVars>>

(***************************************************************************)
(* Helpers for 0-based arrays.                                             *)
(***************************************************************************)
Range(s) == {s[j] : j \in DOMAIN s}

Min(S) == CHOOSE x \in S : \A y \in S : x <= y

\* the increasing enumeration of a finite set of integers, as a sequence
RECURSIVE SetToSortedSeq(_)
SetToSortedSeq(S) ==
    IF S = {} THEN <<>> ELSE <<Min(S)>> \o SetToSortedSeq(S \ {Min(S)})

\* F applied to the value of x (x is evaluated once)
With(x, F(_)) == CHOOSE y \in { F(z) : z \in {x} } : TRUE

(***************************************************************************)
(* Part I.  The batch clusterer.                                           *)
(***************************************************************************)
ErrorCodes == {"OK", "UNKNOWN_ERROR", "INVALID_INPUT", "NO_MEMORY", "NO_SOLUTION",
               "TOO_LARGE_PROBLEM", "TOO_LARGE_DIGRAPH", "DIST_SEARCH_ERROR",
               "NOT_IMPLEMENTED"}

\* SCC_CLABEL_MAX and SCC_CLABEL_NA are the same value in the source
SCC_CLABEL_MAX == args.clabel_max
SCC_CLABEL_NA == args.clabel_max

Points(n) == 0 .. n - 1

\* Arguments that pass every check of scc_nng_clustering_batches.
ValidArgs ==
    { a \in [n : 2 .. NumPoints, k : 2 .. MaxK,
             um : {"IGNORE", "ANY_NEIGHBOR"},
             radius_constraint : BOOLEAN, radius_positive : {TRUE},
             primary_supplied : BOOLEAN, len_primary : 0 .. NumPoints,
             primary : SUBSET Points(NumPoints),
             batch_size : 0 .. NumPoints,
             num_clusters_in : {0}, clustering_ok : {TRUE}, data_set_ok : {TRUE},
             labels_stale : {FALSE}, clabel_max : 1 .. MaxClabelMax] :
        /\ a.k <= a.n
        /\ a.batch_size <= a.n
        /\ a.primary \subseteq Points(a.n)
        /\ a.len_primary = Cardinality(a.primary)
        /\ a.primary_supplied = (a.primary # {}) }

\* Arguments that may break one or several of the checks.
ProbeArgs ==
    { a \in [n : 1 .. 3, k : 1 .. 2,
             um : {"IGNORE", "ANY_NEIGHBOR", "OTHER"},
             radius_constraint : BOOLEAN, radius_positive : BOOLEAN,
             primary_supplied : BOOLEAN, len_primary : 0 .. 1,
             primary : {{}, {0}},
             batch_size : {1},
             num_clusters_in : {0, 1}, clustering_ok : BOOLEAN, data_set_ok : BOOLEAN,
             labels_stale : {TRUE}, clabel_max : {MaxClabelMax}] :
        /\ a.len_primary = Cardinality(a.primary)
        /\ (a.radius_constraint \/ a.radius_positive) }

CallArgs == ValidArgs \cup ProbeArgs

\* what the label array holds before the call: labels a caller left there
\* (label 0) or SCC_CLABEL_NA.  A run reads a label only after writing it
\* (part_001:219, 277-288, 302).
InitialLabels(a) ==
    [p \in Points(a.n) |-> IF a.labels_stale THEN 0 ELSE a.clabel_max]


\* tmp_primary_data_points[p], or no mask at all (part_001:138-144, 216, 228)
IsPrimary(a, p) == ~a.primary_supplied \/ p \in a.primary

\* the batch size iscc_run_nng_batches is given (part_001:101-104): 0 stands
\* for UINT32_MAX, which is above every n and is clamped to n
ClampBatchSize(a) ==
    IF a.batch_size = 0 \/ a.batch_size > a.n THEN a.n ELSE a.batch_size

CheckArgsNoRadius(a) ==
    IF ~a.clustering_ok THEN "INVALID_INPUT"
    ELSE IF ~a.data_set_ok THEN "INVALID_INPUT"
    ELSE IF a.k < 2 THEN "INVALID_INPUT"
    ELSE IF a.n < a.k THEN "NO_SOLUTION"
    ELSE IF a.um # "IGNORE" /\ a.um # "ANY_NEIGHBOR" THEN "INVALID_INPUT"
    ELSE IF a.primary_supplied /\ a.len_primary = 0 THEN "INVALID_INPUT"
    ELSE IF ~a.primary_supplied /\ a.len_primary > 0 THEN "INVALID_INPUT"
    ELSE IF a.num_clusters_in # 0 THEN "NOT_IMPLEMENTED"
    ELSE "OK"

\* The argument checks in the order of the code; "OK" when all pass.
CheckArgs(a) ==
    IF ~a.clustering_ok THEN "INVALID_INPUT"
    ELSE IF ~a.data_set_ok THEN "INVALID_INPUT"
    ELSE IF a.k < 2 THEN "INVALID_INPUT"
    ELSE IF a.n < a.k THEN "NO_SOLUTION"
    ELSE IF a.um # "IGNORE" /\ a.um # "ANY_NEIGHBOR" THEN "INVALID_INPUT"
    ELSE IF a.radius_constraint /\ ~a.radius_positive THEN "INVALID_INPUT"
    ELSE IF a.primary_supplied /\ a.len_primary = 0 THEN "INVALID_INPUT"
    ELSE IF ~a.primary_supplied /\ a.len_primary > 0 THEN "INVALID_INPUT"
    ELSE IF a.num_clusters_in # 0 THEN "NOT_IMPLEMENTED"
    ELSE "OK"

\* no digraph operation is called on its own
AllocOff ==
    /\ al_pc = "off"
    /\ al_in = <<>>
    /\ al_op = <<>>
    /\ heap = <<>>
    /\ al_ec = "none"
    /\ al_seeds = <<>>
    /\ misused = {}

AlgebraOff ==
    /\ op_pc = "off"
    /\ operation = "none"
    /\ in_dgs = <<>>
    /\ op_args = <<>>
    /\ out_dg = <<>>

\* the seed finder is not running
SeedsOff ==
    /\ fs_pc = "off"
    /\ nng = <<>>
    /\ seed_method = "none"
    /\ stable_findseed = FALSE
    /\ out_seeds = <<>>
    /\ fs_ec = "none"
    /\ marks = <<>>
    /\ not_excluded = <<>>
    /\ exclusion_graph = <<>>
    /\ sort = <<>>
    /\ sorted_v = 0
    /\ upd = <<>>
    /\ examined = <<>>

BatchInit ==
    /\ args \in CallArgs
    /\ pc = "call"
    /\ cluster_label = InitialLabels(args)
    /\ num_clusters = args.num_clusters_in
    /\ assigned = [p \in Points(args.n) |-> FALSE]
    /\ curr_point = 0
    /\ batch_indices = <<>>
    /\ row_i = 0
    /\ next_cluster_label = 0
    /\ search_done = FALSE
    /\ ec = "none"
    /\ oracle_opened = FALSE
    /\ seeds_formed = <<>>
    /\ queried = [p \in Points(args.n) |-> 0]
    /\ last_row = <<>>
    /\ oracle_memo = <<>>
    /\ results = <<>>
    /\ SeedsOff
    /\ AlgebraOff
    /\ AllocOff

runFrame == <<cluster_label, num_clusters, assigned, curr_point, batch_indices, row_i,
              next_cluster_label, search_done, seeds_formed, queried, results>>

\* scc_nng_clustering_batches up to a failed check: returns before the oracle
CallRejected ==
    /\ pc = "call"
    /\ CheckArgs(args) # "OK"
    /\ ec' = CheckArgs(args)
    /\ pc' = "done"
    /\ UNCHANGED <<args, oracle_opened, runFrame, oracle_memo>>
    /\ last_row' = <<>>
    /\ UNCHANGED <<seedVars, algVars, allocVars>>

\* iscc_init_nn_search_object fails
CallOracleFails ==
    /\ pc = "call"
    /\ CheckArgs(args) = "OK"
    /\ oracle_opened' = TRUE
    /\ ec' = "DIST_SEARCH_ERROR"
    /\ pc' = "done"
    /\ UNCHANGED <<args, runFrame, oracle_memo>>
    /\ last_row' = <<>>
    /\ UNCHANGED <<seedVars, algVars, allocVars>>

\* one of the allocations fails after the oracle was opened; it is closed again
CallNoMemory ==
    /\ pc = "call"
    /\ CheckArgs(args) = "OK"
    /\ oracle_opened' = TRUE
    /\ ec' = "NO_MEMORY"
    /\ pc' = "done"
    /\ UNCHANGED <<args, runFrame, oracle_memo>>
    /\ last_row' = <<>>
    /\ UNCHANGED <<seedVars, algVars, allocVars>>

\* all checks pass, buffers allocated: iscc_run_nng_batches starts
CallStart ==
    /\ pc = "call"
    /\ CheckArgs(args) = "OK"
    /\ oracle_opened' = TRUE
    /\ pc' = "fill"
    /\ UNCHANGED <<args, ec, runFrame, oracle_memo>>
    /\ last_row' = <<>>
    /\ UNCHANGED <<seedVars, algVars, allocVars>>

\* The fill loop of one batch: walks curr_point forward until the batch holds
\* bsize candidates or the points are exhausted.  Gives the batch, the new
\* curr_point and the labels.
RECURSIVE FillFrom(_, _, _, _, _)
FillFrom(cp, batch, lab, asg, bsize) ==
    IF ~(Len(batch) < bsize /\ cp < args.n) THEN [cp |-> cp, batch |-> batch, lab |-> lab]
    ELSE IF asg[cp]
         THEN FillFrom(cp + 1, batch, lab, asg, bsize)
         ELSE FillFrom(cp + 1,
                       IF IsPrimary(args, cp) THEN Append(batch, cp) ELSE batch,
                       [lab EXCEPT ![cp] = SCC_CLABEL_NA], asg, bsize)

AfterBatchOnce == "finish"

AfterBatchSearchAgain == "search"

\* where the loop between batches goes after the rows of a batch
AfterBatch == IF curr_point < args.n THEN "fill" ELSE "finish"

FillBatch ==
    /\ pc = "fill"
    /\ LET r == FillFrom(curr_point, <<>>, cluster_label, assigned, ClampBatchSize(args))
       IN  /\ curr_point' = r.cp
           /\ cluster_label' = r.lab
           /\ batch_indices' = r.batch
           /\ pc' = IF Len(r.batch) = 0 THEN "finish" ELSE "search"
    /\ row_i' = 0
    /\ UNCHANGED <<args, num_clusters, assigned, next_cluster_label, search_done, ec,
                   oracle_opened, seeds_formed, queried, oracle_memo, results>>
    /\ last_row' = <<>>
    /\ UNCHANGED <<seedVars, algVars, allocVars>>

\* the subsequence of s whose elements are in S
SelectIn(s, S) == SelectSeq(s, LAMBDA x : x \in S)

\* iscc_nearest_neighbor_search returns false
SearchFails ==
    /\ pc = "search"
    /\ search_done' = TRUE
    /\ queried' = [p \in Points(args.n) |->
                     queried[p] + Cardinality({j \in DOMAIN batch_indices : batch_indices[j] = p})]
    /\ ec' = "DIST_SEARCH_ERROR"
    /\ pc' = "done"
    /\ UNCHANGED <<args, cluster_label, num_clusters, assigned, curr_point, batch_indices,
                   row_i, next_cluster_label, oracle_opened, seeds_formed, oracle_memo,
                   results>>
    /\ last_row' = <<>>
    /\ UNCHANGED <<seedVars, algVars, allocVars>>

\* An oracle whose answer for a query depends only on the query repeats what
\* it said before.  Without a memo every answer is free.
Unknown == [st |-> "unknown", row |-> <<>>]

NoMemo == oracle_memo = <<>>

MayAnswer(p) == IF NoMemo THEN TRUE ELSE oracle_memo[p].st # "omitted"

MayOmit(p) == IF NoMemo THEN TRUE ELSE oracle_memo[p].st \in {"unknown", "omitted"}

RowAllowed(p, row) ==
    IF NoMemo THEN TRUE
    ELSE IF oracle_memo[p].st = "row" THEN oracle_memo[p].row = row ELSE TRUE

\* the memo after the queries of batch were answered for ok and left out for the rest
MemoSearch(batch, ok) ==
    IF NoMemo THEN oracle_memo
    ELSE [p \in DOMAIN oracle_memo |->
            IF p \in Range(batch) /\ oracle_memo[p].st = "unknown"
            THEN [st |-> IF p \in ok THEN "answered" ELSE "omitted", row |-> <<>>]
            ELSE oracle_memo[p]]

\* the memo after the row of query p was read
MemoRow(p, row) ==
    IF NoMemo THEN oracle_memo
    ELSE [oracle_memo EXCEPT ![p] = [st |-> "row", row |-> row]]

\* iscc_nearest_neighbor_search answers: the queries it could answer (all of
\* them without a radius constraint) are compacted to the front of
\* batch_indices, num_ok_in_batch of them.  The row of each is drawn when the
\* row loop reaches it: the oracle's answer does not depend on the clusterer.
Search ==
    /\ pc = "search"
    /\ \E ok \in SUBSET Range(batch_indices) :
          /\ (~args.radius_constraint) => ok = Range(batch_indices)
          /\ \A p \in ok : MayAnswer(p)
          /\ \A p \in Range(batch_indices) \ ok : MayOmit(p)
          /\ batch_indices' = SelectIn(batch_indices, ok)
          /\ oracle_memo' = MemoSearch(batch_indices, ok)
          /\ pc' = IF ok = {} THEN AfterBatch ELSE "rows"
    /\ search_done' = TRUE
    /\ queried' = [p \in Points(args.n) |->
                     queried[p] + Cardinality({j \in DOMAIN batch_indices : batch_indices[j] = p})]
    /\ row_i' = 0
    /\ UNCHANGED <<args, cluster_label, num_clusters, assigned, curr_point,
                   next_cluster_label, ec, oracle_opened, seeds_formed, results>>
    /\ last_row' = <<>>
    /\ UNCHANGED <<seedVars, algVars, allocVars>>

\* compile-time option SCC_STABLE_NNG (off unless defined by the user)
SCC_STABLE_NNG == FALSE

\* qsort of one row with iscc_compare_PointIndex
SortRow(row) == SetToSortedSeq(Range(row))

\* the rows the oracle may give for a query: k distinct points (1-based
\* position j of the row is out_indices[i * k + j - 1])
OracleRows(n, k) ==
    { r \in [1 .. k -> Points(n)] : \A x, y \in 1 .. k : x # y => r[x] # r[y] }

\* the rows as the row loop reads them, for every n and k of the model
RowTable ==
    [n \in 1 .. NumPoints |-> [k \in 1 .. MaxK |->
        IF SCC_STABLE_NNG THEN { SortRow(r) : r \in OracleRows(n, k) }
        ELSE OracleRows(n, k)]]

ConsumedRows(n, k) == RowTable[n][k]

\* the check loop (part_001:265): the first position of the row that holds an
\* assigned point, 0 when there is none
FirstAssigned(row, asg) ==
    LET hits == { j \in DOMAIN row : asg[row[j]] }
    IN  IF hits = {} THEN 0 ELSE Min(hits)

\* the points a new seed c with this row marks and labels (part_001:273-289):
\* the first k-1 entries of the row, then the last entry when c was among
\* them, c itself otherwise
SeedMembersWholeRow(c, row) == Range(row) \cup {c}

SeedMembersDropLast(c, row) ==
    { row[j] : j \in 1 .. Len(row) - 1 } \cup {c}

SeedMembers(c, row) ==
    LET k == Len(row)
        firsts == { row[j] : j \in 1 .. k - 1 }
    IN  IF c \in firsts THEN firsts \cup {row[k]} ELSE firsts \cup {c}

\* the labels after candidate c, not a seed, met the assigned point hit
\* (part_001:295-303)
PreliminaryLabelNever(lab, c, hit, ignore_unassigned) == lab

PreliminaryLabel(lab, c, hit, ignore_unassigned) ==
    IF ~ignore_unassigned THEN [lab EXCEPT ![c] = lab[hit]] ELSE lab

rowsDone == IF row_i + 1 = Len(batch_indices) THEN AfterBatch ELSE "rows"

\* row i whose candidate was assigned meanwhile: nothing happens
RowSkip ==
    /\ pc = "rows"
    /\ assigned[batch_indices[row_i + 1]]
    /\ row_i' = row_i + 1
    /\ pc' = rowsDone
    /\ UNCHANGED <<args, cluster_label, num_clusters, assigned, curr_point, batch_indices,
                   next_cluster_label, search_done, ec, oracle_opened, seeds_formed,
                   queried, oracle_memo, results>>
    /\ last_row' = <<>>
    /\ UNCHANGED <<seedVars, algVars, allocVars>>

\* row i has no assigned point: the candidate becomes a seed
RowSeed ==
    /\ pc = "rows"
    /\ LET c == batch_indices[row_i + 1]
       IN  /\ ~assigned[c]
           /\ \E row \in ConsumedRows(args.n, args.k) :
                 /\ RowAllowed(c, row)
                 /\ FirstAssigned(row, assigned) = 0
                 /\ next_cluster_label # SCC_CLABEL_MAX
                 /\ assigned' = [p \in Points(args.n) |->
                                   assigned[p] \/ p \in SeedMembers(c, row)]
                 /\ cluster_label' = [p \in Points(args.n) |->
                                   IF p \in SeedMembers(c, row) THEN next_cluster_label
                                   ELSE cluster_label[p]]
                 /\ last_row' = [c |-> c, firsts |-> {row[j] : j \in 1 .. args.k - 1},
                                  last |-> row[args.k]]
                 /\ oracle_memo' = MemoRow(c, row)
           /\ seeds_formed' = Append(seeds_formed, c)
    /\ next_cluster_label' = next_cluster_label + 1
    /\ row_i' = row_i + 1
    /\ pc' = rowsDone
    /\ UNCHANGED <<args, num_clusters, curr_point, batch_indices, search_done, ec,
                   oracle_opened, queried, results>>
    /\ UNCHANGED <<seedVars, algVars, allocVars>>

\* row i could seed a cluster but the labels are used up
RowTooLarge ==
    /\ pc = "rows"
    /\ ~assigned[batch_indices[row_i + 1]]
    /\ next_cluster_label = SCC_CLABEL_MAX
    /\ \E row \in ConsumedRows(args.n, args.k) :
          /\ RowAllowed(batch_indices[row_i + 1], row)
          /\ FirstAssigned(row, assigned) = 0
          /\ oracle_memo' = MemoRow(batch_indices[row_i + 1], row)
    /\ ec' = "TOO_LARGE_PROBLEM"
    /\ pc' = "done"
    /\ UNCHANGED <<args, oracle_opened, runFrame>>
    /\ last_row' = <<>>
    /\ UNCHANGED <<seedVars, algVars, allocVars>>

\* row i holds an assigned point: the candidate cannot be a seed
RowNoSeed ==
    /\ pc = "rows"
    /\ LET c == batch_indices[row_i + 1]
       IN  /\ ~assigned[c]
           /\ \E row \in ConsumedRows(args.n, args.k) :
                 /\ RowAllowed(c, row)
                 /\ FirstAssigned(row, assigned) # 0
                 /\ cluster_label' =
                       PreliminaryLabel(cluster_label, c, row[FirstAssigned(row, assigned)],
                                        args.um = "IGNORE")
                 /\ oracle_memo' = MemoRow(c, row)
    /\ row_i' = row_i + 1
    /\ pc' = rowsDone
    /\ UNCHANGED <<args, num_clusters, assigned, curr_point, batch_indices,
                   next_cluster_label, search_done, ec, oracle_opened, seeds_formed,
                   queried, results>>
    /\ last_row' = <<>>
    /\ UNCHANGED <<seedVars, algVars, allocVars>>

\* the error code after the loop between batches (part_001:310-324)
FinishCodeBySearch(ncl, sd) == IF ~sd THEN "NO_SOLUTION" ELSE "OK"

FinishCode(ncl, sd) == IF ncl = 0 THEN "NO_SOLUTION" ELSE "OK"

\* after the loop between batches (part_001:310-324)
Finish ==
    /\ pc = "finish"
    /\ ec' = FinishCode(next_cluster_label, search_done)
    /\ num_clusters' = IF next_cluster_label = 0 THEN num_clusters ELSE next_cluster_label
    /\ pc' = "done"
    /\ UNCHANGED <<args, cluster_label, assigned, curr_point, batch_indices, row_i,
                   next_cluster_label, search_done, oracle_opened, seeds_formed,
                   queried, oracle_memo, results>>
    /\ last_row' = <<>>
    /\ UNCHANGED <<seedVars, algVars, allocVars>>

BatchNext ==
    \/ CallRejected
    \/ CallOracleFails
    \/ CallNoMemory
    \/ CallStart
    \/ FillBatch
    \/ SearchFails
    \/ Search
    \/ RowSkip
    \/ RowSeed
    \/ RowTooLarge
    \/ RowNoSeed
    \/ Finish

(***************************************************************************)
(* The same call repeated with batch sizes 1, 2, .. n on the same inputs,  *)
(* against an oracle that repeats its answers.                             *)
(***************************************************************************)

\* The label array of the clustering handed in holds whatever its owner left
\* there (labels_stale).
SweepArgs ==
    { [a EXCEPT !.labels_stale = TRUE] :
        a \in { b \in ValidArgs : b.n = NumPoints /\ b.batch_size = 1
                                    /\ ~b.primary_supplied } }

SweepInit ==
    /\ args \in SweepArgs
    /\ pc = "call"
    /\ cluster_label = InitialLabels(args)
    /\ num_clusters = args.num_clusters_in
    /\ assigned = [p \in Points(args.n) |-> FALSE]
    /\ curr_point = 0
    /\ batch_indices = <<>>
    /\ row_i = 0
    /\ next_cluster_label = 0
    /\ search_done = FALSE
    /\ ec = "none"
    /\ oracle_opened = FALSE
    /\ seeds_formed = <<>>
    /\ queried = [p \in Points(args.n) |-> 0]
    /\ last_row = <<>>
    /\ oracle_memo = [p \in Points(args.n) |-> Unknown]
    /\ results = <<>>
    /\ SeedsOff
    /\ AlgebraOff
    /\ AllocOff

\* what a run hands back to its caller
Outcome == [ec |-> ec, num_clusters |-> num_clusters, cluster_label |-> cluster_label]

\* the run with this batch size has returned: the caller keeps its outcome and
\* calls again with the next batch size, on a clustering as it was before
NextBatchSize ==
    /\ pc = "done"
    /\ ~NoMemo
    /\ results' = Append(results, Outcome)
    /\ IF args.batch_size < args.n
       THEN /\ args' = [args EXCEPT !.batch_size = @ + 1]
            /\ pc' = "call"
            /\ cluster_label' = InitialLabels(args)
            /\ num_clusters' = args.num_clusters_in
            /\ assigned' = [p \in Points(args.n) |-> FALSE]
            /\ curr_point' = 0
            /\ batch_indices' = <<>>
            /\ row_i' = 0
            /\ next_cluster_label' = 0
            /\ search_done' = FALSE
            /\ ec' = "none"
            /\ oracle_opened' = FALSE
            /\ seeds_formed' = <<>>
            /\ queried' = [p \in Points(args.n) |-> 0]
       ELSE /\ pc' = "swept"
            /\ UNCHANGED <<args, cluster_label, num_clusters, assigned, curr_point,
                           batch_indices, row_i, next_cluster_label, search_done, ec,
                           oracle_opened, seeds_formed, queried>>
    /\ UNCHANGED oracle_memo
    /\ last_row' = <<>>
    /\ UNCHANGED <<seedVars, algVars, allocVars>>

SweepNext ==
    \/ CallStart
    \/ FillBatch
    \/ Search
    \/ RowSkip
    \/ RowSeed
    \/ RowTooLarge
    \/ RowNoSeed
    \/ Finish
    \/ NextBatchSize

SpecSweep == SweepInit /\ [][SweepNext]_vars

Init == BatchInit

Next == BatchNext

Spec == Init /\ [][Next]_vars

\* scc_nng_clustering_batches is one sequential call: as long as it has not
\* returned it takes its next step, the oracle returning from every call
SpecFair == Init /\ [][Next]_vars /\ WF_vars(Next)

(***************************************************************************)
(* Part II.  Digraphs and the digraph operations the seed finder calls.    *)
(*                                                                         *)
(* A digraph is [vertices, max_arcs, tail_ptr, head]: tail_ptr is an array *)
(* on 0..vertices, head an array on 0..max_arcs-1; the arcs of vertex v    *)
(* are head[tail_ptr[v]] .. head[tail_ptr[v+1] - 1].                       *)
(***************************************************************************)

\* the array with the elements of sequence s
ArrayOf(s) == [i \in 0 .. Len(s) - 1 |-> s[i + 1]]

\* the arcs of v, in the order of head, as a sequence
OutArcs(g, v) == [j \in 1 .. g.tail_ptr[v + 1] - g.tail_ptr[v] |-> g.head[g.tail_ptr[v] + j - 1]]

\* out(v)
Out(g, v) == Range(OutArcs(g, v))

\* what the writing pass has put into out_head when it reaches row v: the
\* rows before v one after the other; out_tail_ptr[v] is its length
RECURSIVE HeadBefore(_, _)
HeadBefore(rows, v) == IF v = 0 THEN <<>> ELSE HeadBefore(rows, v - 1) \o rows[v - 1]

\* the digraph a writing pass leaves, followed by iscc_change_arc_storage to
\* the number of arcs written
DigraphOfRows(n, rows) ==
    With(rows, LAMBDA r :
        With(HeadBefore(r, n), LAMBDA all :
            [vertices |-> n,
             max_arcs |-> Len(all),
             tail_ptr |-> [v \in 0 .. n |-> Len(HeadBefore(r, v))],
             head |-> ArrayOf(all)]))

\* walking the arcs cands of one row with row_markers: an arc is written when
\* its head was not yet marked for this row; seen are the heads marked so far
RECURSIVE EmitUnmarked(_, _)
EmitUnmarked(cands, seen) ==
    IF cands = <<>> THEN <<>>
    ELSE IF Head(cands) \in seen THEN EmitUnmarked(Tail(cands), seen)
    ELSE <<Head(cands)>> \o EmitUnmarked(Tail(cands), seen \cup {Head(cands)})

\* the rows of v in dgs[1], dgs[2], .. one after the other
RECURSIVE RowsOfAll(_, _)
RowsOfAll(dgs, v) ==
    IF dgs = <<>> THEN <<>> ELSE OutArcs(Head(dgs), v) \o RowsOfAll(Tail(dgs), v)

UnionAndDeleteAllArcs(vertices, dgs, tails_to_keep) ==
    [v \in 0 .. vertices - 1 |->
        IF tails_to_keep[v] THEN SelectSeq(RowsOfAll(dgs, v), LAMBDA x : x # v) ELSE <<>>]

\* iscc_do_union_and_delete with write = true: row_markers[v] = v before the
\* row of a kept tail, no arcs for the other tails
iscc_do_union_and_delete(vertices, dgs, tails_to_keep) ==
    [v \in 0 .. vertices - 1 |->
        IF tails_to_keep[v] THEN EmitUnmarked(RowsOfAll(dgs, v), {v}) ELSE <<>>]

iscc_digraph_union_and_delete(dgs, tails_to_keep) ==
    DigraphOfRows(dgs[1].vertices,
                  iscc_do_union_and_delete(dgs[1].vertices, dgs, tails_to_keep))

\* iscc_digraph_transpose is a counting sort on the arrays of out_dg.
\* The first loop counts in tail_ptr[x] the arcs of in_dg into x.
TransposeCount(g) ==
    [x \in 0 .. g.vertices |->
        Cardinality({ i \in 0 .. g.tail_ptr[g.vertices] - 1 : g.head[i] = x })]

\* the second loop: tail_ptr[v + 1] += tail_ptr[v] for v from 0 up
RECURSIVE TransposePrefix(_, _, _)
TransposePrefix(tail_ptr, v, n) ==
    IF v = n THEN tail_ptr
    ELSE TransposePrefix([tail_ptr EXCEPT ![v + 1] = tail_ptr[v + 1] + tail_ptr[v]], v + 1, n)

\* the arcs of g from row v on, in the order of head, each as <<tail, head>>
RECURSIVE ArcsFrom(_, _)
ArcsFrom(g, v) ==
    IF v = g.vertices THEN <<>>
    ELSE [j \in DOMAIN OutArcs(g, v) |-> <<v, OutArcs(g, v)[j]>>] \o ArcsFrom(g, v + 1)

\* the third loop: for every arc v -> x, --tail_ptr[x] and head[tail_ptr[x]] = v
RECURSIVE TransposeScatter(_, _)
TransposeScatter(arcs, out) ==
    IF arcs = <<>> THEN out
    ELSE LET v == Head(arcs)[1]
             x == Head(arcs)[2]
             at == out.tail_ptr[x] - 1
         IN  TransposeScatter(Tail(arcs),
                              [out EXCEPT !.tail_ptr[x] = at, !.head[at] = v])

TransposeSame(in_dg) == in_dg

\* head of out_dg holds no arc (-1) until the third loop writes it
iscc_digraph_transpose(in_dg) ==
    With(in_dg, LAMBDA g :
        TransposeScatter(ArcsFrom(g, 0),
            [vertices |-> g.vertices,
             max_arcs |-> g.tail_ptr[g.vertices],
             tail_ptr |-> TransposePrefix(TransposeCount(g), 0, g.vertices),
             head |-> [i \in 0 .. g.tail_ptr[g.vertices] - 1 |-> -1]]))

\* the rows of dg_b the product walks for row v of dg_a, one after the other
RECURSIVE ProductArcs(_, _, _, _)
ProductArcs(v, arcs_a, dg_b, skip_loops) ==
    IF arcs_a = <<>> THEN <<>>
    ELSE (IF Head(arcs_a) = v /\ skip_loops THEN <<>> ELSE OutArcs(dg_b, Head(arcs_a)))
         \o ProductArcs(v, Tail(arcs_a), dg_b, skip_loops)

ProductKeepLoops(vertices, dg_a, dg_b, force_loops, ignore_loops) ==
    [v \in 0 .. vertices - 1 |->
        EmitUnmarked((IF force_loops THEN OutArcs(dg_b, v) ELSE <<>>)
                     \o ProductArcs(v, OutArcs(dg_a, v), dg_b, force_loops \/ ignore_loops),
                     {})]

\* iscc_do_adjacency_product with write = true
iscc_do_adjacency_product(vertices, dg_a, dg_b, force_loops, ignore_loops) ==
    [v \in 0 .. vertices - 1 |->
        EmitUnmarked((IF force_loops THEN OutArcs(dg_b, v) ELSE <<>>)
                     \o ProductArcs(v, OutArcs(dg_a, v), dg_b, force_loops \/ ignore_loops),
                     {v})]

iscc_adjacency_product(in_dg_a, in_dg_b, force_loops, ignore_loops) ==
    DigraphOfRows(in_dg_a.vertices,
                  iscc_do_adjacency_product(in_dg_a.vertices, in_dg_a, in_dg_b,
                                            force_loops, ignore_loops))

UnionKeepLoops(vertices, dgs) ==
    [v \in 0 .. vertices - 1 |-> EmitUnmarked(RowsOfAll(dgs, v), {})]

\* iscc_do_union with write = true: row_markers[v] = v before row v, then the
\* rows of v in dgs[0], dgs[1], .. with every head written once
iscc_do_union(vertices, dgs) ==
    [v \in 0 .. vertices - 1 |-> EmitUnmarked(RowsOfAll(dgs, v), {v})]

iscc_digraph_union(dgs) ==
    DigraphOfRows(dgs[1].vertices, iscc_do_union(dgs[1].vertices, dgs))

\* the loop over the minuend's row in iscc_do_difference: an arc whose head is
\* not marked is written (and not marked), until row_counter reaches
\* max_out_degree; room is max_out_degree - row_counter
RECURSIVE EmitDifference(_, _, _)
EmitDifference(cands, marked, room) ==
    IF cands = <<>> \/ room = 0 THEN <<>>
    ELSE IF Head(cands) \in marked THEN EmitDifference(Tail(cands), marked, room)
    ELSE <<Head(cands)>> \o EmitDifference(Tail(cands), marked, room - 1)

DifferenceNoCap(vertices, minuend, subtrahend, max_out_degree) ==
    [v \in 0 .. vertices - 1 |->
        EmitDifference(OutArcs(minuend, v), {v} \cup Out(subtrahend, v),
                       Len(OutArcs(minuend, v)))]

\* iscc_do_difference with write = true: row_markers[v] = v, then the heads of
\* the subtrahend's row are marked
iscc_do_difference(vertices, minuend, subtrahend, max_out_degree) ==
    [v \in 0 .. vertices - 1 |->
        EmitDifference(OutArcs(minuend, v), {v} \cup Out(subtrahend, v), max_out_degree)]

\* vertices is read from in_dgs[0], a name the function does not declare
\* (part_002:231); it is taken to be minuend_dg->vertices, which line 228
\* asserts to be subtrahend_dg->vertices
iscc_digraph_difference(minuend_dg, subtrahend_dg, max_out_degree) ==
    DigraphOfRows(minuend_dg.vertices,
                  iscc_do_difference(minuend_dg.vertices, minuend_dg, subtrahend_dg,
                                     max_out_degree))

\* iscc_delete_loops_check_error works in place: tail_ptr[v] becomes
\* head_write, the arcs of v other than v -> v are written from head_write on,
\* head behind the last arc written and max_arcs stay as they were
iscc_delete_loops_check_error(dg) ==
    With(dg, LAMBDA g :
        With([v \in 0 .. g.vertices - 1 |-> SelectSeq(OutArcs(g, v), LAMBDA x : x # v)],
             LAMBDA rows :
                With(HeadBefore(rows, g.vertices), LAMBDA written :
                    [vertices |-> g.vertices,
                     max_arcs |-> g.max_arcs,
                     tail_ptr |-> [v \in 0 .. g.vertices |-> Len(HeadBefore(rows, v))],
                     head |-> [i \in 0 .. g.max_arcs - 1 |->
                                  IF i < Len(written) THEN written[i + 1] ELSE g.head[i]]])))

\* the arcs the first call of iscc_init_digraph asks for ("greedy memory
\* count"): all arcs of the digraphs of a union,
RECURSIVE UnionGreedyCount(_)
UnionGreedyCount(dgs) ==
    IF dgs = <<>> THEN 0
    ELSE Head(dgs).tail_ptr[Head(dgs).vertices] + UnionGreedyCount(Tail(dgs))

\* the arcs of the minuend of a difference,
DifferenceGreedyCount(minuend_dg) == minuend_dg.tail_ptr[minuend_dg.vertices]

\* and for a product the lengths of the rows of in_dg_b that are walked
RECURSIVE SumOver(_, _)
SumOver(seq, f) == IF seq = <<>> THEN 0 ELSE f[Head(seq)] + SumOver(Tail(seq), f)

ProductGreedyNotForced(in_dg_a, in_dg_b, force_loops, ignore_loops) ==
    LET deg_b == [v \in 0 .. in_dg_b.vertices - 1 |-> Len(OutArcs(in_dg_b, v))]
        row(v) == SumOver(SelectSeq(OutArcs(in_dg_a, v),
                                    LAMBDA a : ~(a = v /\ (force_loops \/ ignore_loops))),
                          deg_b)
    IN  SumOver([v \in 1 .. in_dg_a.vertices |-> v - 1],
                [v \in 0 .. in_dg_a.vertices - 1 |-> row(v)])

ProductGreedyCount(in_dg_a, in_dg_b, force_loops, ignore_loops) ==
    LET deg_b == [v \in 0 .. in_dg_b.vertices - 1 |-> Len(OutArcs(in_dg_b, v))]
        row(v) == (IF force_loops THEN deg_b[v] ELSE 0)
                  + SumOver(SelectSeq(OutArcs(in_dg_a, v),
                                      LAMBDA a : ~(a = v /\ (force_loops \/ ignore_loops))),
                            deg_b)
    IN  SumOver([v \in 1 .. in_dg_a.vertices |-> v - 1],
                [v \in 0 .. in_dg_a.vertices - 1 |-> row(v)])

\* the pass without writing (write = false) walks the arcs of a row with
\* row_markers as the writing pass does and adds 1 to counter where the
\* writing pass writes
RECURSIVE CountUnmarked(_, _)
CountUnmarked(cands, seen) ==
    IF cands = <<>> THEN 0
    ELSE IF Head(cands) \in seen THEN CountUnmarked(Tail(cands), seen)
    ELSE 1 + CountUnmarked(Tail(cands), seen \cup {Head(cands)})

\* the same for the minuend's row in iscc_do_difference, row_counter stopping
\* the loop at max_out_degree
RECURSIVE CountDifference(_, _, _)
CountDifference(cands, marked, room) ==
    IF cands = <<>> \/ room = 0 THEN 0
    ELSE IF Head(cands) \in marked THEN CountDifference(Tail(cands), marked, room)
    ELSE 1 + CountDifference(Tail(cands), marked, room - 1)

\* counter after the rows 0 .. vertices - 1, row_count[v] being what row v adds
CounterOver(vertices, row_count) ==
    SumOver([v \in 1 .. vertices |-> v - 1], row_count)

UnionCountAllArcs(vertices, dgs) ==
    CounterOver(vertices, [v \in 0 .. vertices - 1 |-> Len(RowsOfAll(dgs, v))])

\* iscc_do_union with write = false
iscc_do_union_count(vertices, dgs) ==
    CounterOver(vertices,
                [v \in 0 .. vertices - 1 |-> CountUnmarked(RowsOfAll(dgs, v), {v})])

\* iscc_do_union_and_delete with write = false
iscc_do_union_and_delete_count(vertices, dgs, tails_to_keep) ==
    CounterOver(vertices,
                [v \in 0 .. vertices - 1 |->
                    IF tails_to_keep[v] THEN CountUnmarked(RowsOfAll(dgs, v), {v}) ELSE 0])

\* iscc_do_difference with write = false
iscc_do_difference_count(vertices, minuend, subtrahend, max_out_degree) ==
    CounterOver(vertices,
                [v \in 0 .. vertices - 1 |->
                    CountDifference(OutArcs(minuend, v), {v} \cup Out(subtrahend, v),
                                    max_out_degree)])

\* iscc_do_adjacency_product with write = false
iscc_do_adjacency_product_count(vertices, dg_a, dg_b, force_loops, ignore_loops) ==
    CounterOver(vertices,
                [v \in 0 .. vertices - 1 |->
                    CountUnmarked((IF force_loops THEN OutArcs(dg_b, v) ELSE <<>>)
                                  \o ProductArcs(v, OutArcs(dg_a, v), dg_b,
                                                 force_loops \/ ignore_loops),
                                  {v})])

(***************************************************************************)
(* Part II.  The seed finder (src/src/nng_findseeds.c).                    *)
(*                                                                         *)
(* Pointers into sorted_vertices are positions 0 .. vertices (vertices is  *)
(* one past the end).                                                      *)
(***************************************************************************)

CheckOwnMarkOnly(v, g, m) ==
    IF m[v] THEN FALSE
    ELSE IF g.tail_ptr[v] = g.tail_ptr[v + 1] THEN FALSE
    ELSE TRUE

CheckRowsOfTwo(v, g, m) ==
    IF m[v] THEN FALSE
    ELSE IF g.tail_ptr[v + 1] - g.tail_ptr[v] < 2 THEN FALSE
    ELSE \A x \in Out(g, v) : ~m[x]

CheckMarksOnly(v, g, m) ==
    IF m[v] THEN FALSE
    ELSE \A x \in Out(g, v) : ~m[x]

\* iscc_fs_check_neighbors_marks
iscc_fs_check_neighbors_marks(v, g, m) ==
    IF m[v] THEN FALSE
    ELSE IF g.tail_ptr[v] = g.tail_ptr[v + 1] THEN FALSE
    ELSE \A x \in Out(g, v) : ~m[x]

MarkAllVertices(s, g, m) == [v \in DOMAIN m |-> TRUE]

MarkSeedOnly(s, g, m) == [m EXCEPT ![s] = TRUE]

\* iscc_fs_mark_seed_neighbors
iscc_fs_mark_seed_neighbors(s, g, m) ==
    [x \in DOMAIN m |-> IF x \in Out(g, s) \/ x = s THEN TRUE ELSE m[x]]

\* the capacity iscc_fs_add_seed grows the seed array to
GrownCapacity(capacity) ==
    LET grown == capacity + (capacity \div 8) + 1024
    IN  IF grown > SCC_CLABEL_MAX THEN SCC_CLABEL_MAX ELSE grown

\* iscc_fs_add_seed when it succeeds
iscc_fs_add_seed(s, seed_result) ==
    [seeds |-> Append(seed_result.seeds, s),
     count |-> seed_result.count + 1,
     capacity |-> IF seed_result.count = seed_result.capacity
                  THEN GrownCapacity(seed_result.capacity)
                  ELSE seed_result.capacity,
     ptr |-> "allocated"]

\* the seed result after a failure has freed the seed array: the fields are
\* left as they were, seeds points to freed memory
FreedSeeds(seed_result) == [seed_result EXCEPT !.ptr = "freed"]

\* the number of arcs into v
InwardsCount(g, v) ==
    Cardinality({ i \in 0 .. g.tail_ptr[g.vertices] - 1 : g.head[i] = v })

Max(S) == CHOOSE x \in S : \A y \in S : x >= y

\* the loop that puts the vertices into their buckets, v going down from
\* vertices - 1 to 0 (nng_findseeds.c:703-708, 710-714); st is the sort so far
RECURSIVE FillBuckets(_, _)
FillBuckets(v, st) ==
    IF v = 0 THEN st
    ELSE LET w == v - 1
             b == st.inwards_count[w]
             pos == st.bucket_index[b] - 1
         IN  FillBuckets(w, [st EXCEPT !.bucket_index[b] = pos,
                                       !.sorted_vertices[pos] = w,
                                       !.vertex_index[w] = pos])

\* iscc_fs_sort_by_inwards: without make_indices only sorted_vertices is kept
iscc_fs_sort_by_inwards(g, make_indices) ==
    With([v \in 0 .. g.vertices - 1 |-> InwardsCount(g, v)], LAMBDA inwards_count :
        LET vertices == g.vertices
            max_inwards == Max(Range(inwards_count))
            \* bucket_index[b] before the buckets are filled: the end of bucket b
            bucket_end == [b \in 0 .. max_inwards |->
                             Cardinality({ v \in 0 .. vertices - 1 : inwards_count[v] <= b })]
        IN  With(FillBuckets(vertices,
                             [inwards_count |-> inwards_count,
                              sorted_vertices |-> [i \in 0 .. vertices - 1 |-> 0],
                              vertex_index |-> [v \in 0 .. vertices - 1 |-> 0],
                              bucket_index |-> bucket_end]),
                 LAMBDA filled :
                    IF make_indices THEN filled
                    ELSE [inwards_count |-> <<>>,
                          sorted_vertices |-> filled.sorted_vertices,
                          vertex_index |-> <<>>,
                          bucket_index |-> <<>>]))

\* iscc_fs_debug_bucket_sort: the vertex at pos is moved towards bucket_start
\* until the vertex before it is smaller
RECURSIVE iscc_fs_debug_bucket_sort(_, _, _, _)
iscc_fs_debug_bucket_sort(bucket_start, pos, tmp_v, st) ==
    IF pos = bucket_start \/ tmp_v >= st.sorted_vertices[pos - 1]
    THEN [st EXCEPT !.sorted_vertices[pos] = tmp_v, !.vertex_index[tmp_v] = pos]
    ELSE iscc_fs_debug_bucket_sort(bucket_start, pos - 1, tmp_v,
             [st EXCEPT !.sorted_vertices[pos] = st.sorted_vertices[pos - 1],
                        !.vertex_index[st.sorted_vertices[pos - 1]] = pos])

\* the start of the bucket, also when the scan has passed it
MoveToBucketStart(v_to_decrease, st, current_pos) ==
    st.bucket_index[st.inwards_count[v_to_decrease]]

\* the vertex to decrease stays where it is
MoveToStaysPut(v_to_decrease, st, current_pos) == st.vertex_index[v_to_decrease]

\* where iscc_fs_decrease_v_in_sort moves the vertex to
MoveTo(v_to_decrease, st, current_pos) ==
    LET move_to == st.bucket_index[st.inwards_count[v_to_decrease]]
    IN  IF move_to <= current_pos THEN current_pos + 1 ELSE move_to

\* iscc_fs_decrease_v_in_sort stays within its arrays: the count is not 0
\* (bucket_index[count - 1] exists), the swap position is in sorted_vertices
\* and, in a stable build, the two bucket sorts start at or before the position
\* they sort from
DecreaseDefined(v_to_decrease, st, current_pos, stable) ==
    LET k == st.inwards_count[v_to_decrease]
        move_to == MoveTo(v_to_decrease, st, current_pos)
    IN  /\ k >= 1
        /\ k \in DOMAIN st.bucket_index
        /\ move_to \in DOMAIN st.sorted_vertices
        /\ stable => /\ move_to <= st.vertex_index[v_to_decrease]
                     /\ (st.bucket_index[k] <= current_pos) \/ (st.bucket_index[k - 1] <= move_to)

\* iscc_fs_decrease_v_in_sort of a build without SCC_STABLE_FINDSEED, whatever
\* the build
DecreaseWithoutSorting(v_to_decrease, st, current_pos, stable) ==
    LET k == st.inwards_count[v_to_decrease]
        move_from == st.vertex_index[v_to_decrease]
        move_to == MoveTo(v_to_decrease, st, current_pos)
        retarget == st.bucket_index[k] <= current_pos
        bucket1 == IF retarget THEN [st.bucket_index EXCEPT ![k - 1] = move_to]
                   ELSE st.bucket_index
        other == st.sorted_vertices[move_to]
    IN  [inwards_count |-> [st.inwards_count EXCEPT ![v_to_decrease] = k - 1],
         sorted_vertices |-> [st.sorted_vertices EXCEPT ![move_from] = other,
                                                        ![move_to] = v_to_decrease],
         vertex_index |-> [st.vertex_index EXCEPT ![other] = move_from,
                                                  ![v_to_decrease] = move_to],
         bucket_index |-> [bucket1 EXCEPT ![k] = move_to + 1]]

\* iscc_fs_decrease_v_in_sort without the decrement of the count
DecreaseKeepsCount(v_to_decrease, st, current_pos, stable) ==
    LET k == st.inwards_count[v_to_decrease]
        move_from == st.vertex_index[v_to_decrease]
        move_to == MoveTo(v_to_decrease, st, current_pos)
        other == st.sorted_vertices[move_to]
    IN  [inwards_count |-> st.inwards_count,
         sorted_vertices |-> [st.sorted_vertices EXCEPT ![move_from] = other,
                                                        ![move_to] = v_to_decrease],
         vertex_index |-> [st.vertex_index EXCEPT ![other] = move_from,
                                                  ![v_to_decrease] = move_to],
         bucket_index |-> [st.bucket_index EXCEPT ![k] = move_to + 1]]

\* iscc_fs_decrease_v_in_sort
iscc_fs_decrease_v_in_sort(v_to_decrease, st, current_pos, stable) ==
    LET k == st.inwards_count[v_to_decrease]
        move_from == st.vertex_index[v_to_decrease]
        move_to == MoveTo(v_to_decrease, st, current_pos)
        retarget == st.bucket_index[k] <= current_pos
        bucket1 == IF retarget THEN [st.bucket_index EXCEPT ![k - 1] = move_to]
                   ELSE st.bucket_index
        other == st.sorted_vertices[move_to]
        swapped == [inwards_count |-> [st.inwards_count EXCEPT ![v_to_decrease] = k - 1],
                    sorted_vertices |-> [st.sorted_vertices EXCEPT ![move_from] = other,
                                                                   ![move_to] = v_to_decrease],
                    vertex_index |-> [st.vertex_index EXCEPT ![other] = move_from,
                                                             ![v_to_decrease] = move_to],
                    bucket_index |-> [bucket1 EXCEPT ![k] = move_to + 1]]
        old_sorted == IF move_to # move_from
                      THEN iscc_fs_debug_bucket_sort(move_to + 1, move_from,
                                                     swapped.sorted_vertices[move_from], swapped)
                      ELSE swapped
        new_start == IF old_sorted.bucket_index[k - 1] <= current_pos
                     THEN current_pos + 1 ELSE old_sorted.bucket_index[k - 1]
        restarted == [old_sorted EXCEPT !.bucket_index[k - 1] = new_start]
    IN  IF stable
        THEN iscc_fs_debug_bucket_sort(new_start, move_to, v_to_decrease, restarted)
        ELSE swapped

\* iscc_fs_exclusion_graph without the product: the rows of nng only
ExclusionGraphOfArcs(g) ==
    LET tails_to_keep == [v \in 0 .. g.vertices - 1 |-> g.tail_ptr[v] # g.tail_ptr[v + 1]]
    IN  iscc_digraph_union_and_delete(<<g>>, tails_to_keep)

\* iscc_fs_exclusion_graph: the union of nng and the product of nng with its
\* transpose (loops forced), without the rows of the vertices that have no arcs
\* in nng.  iscc_findseeds_exclusion hands over the vertices to keep
\* (nng_findseeds.c:402-411).
iscc_fs_exclusion_graph(g) ==
    LET tails_to_keep == [v \in 0 .. g.vertices - 1 |-> g.tail_ptr[v] # g.tail_ptr[v + 1]]
    IN  With(iscc_digraph_transpose(g), LAMBDA nng_transpose :
            With(iscc_adjacency_product(g, nng_transpose, TRUE, FALSE),
                 LAMBDA nng_nng_transpose :
                    iscc_digraph_union_and_delete(<<g, nng_nng_transpose>>, tails_to_keep)))

SeedMethods == {"LEXICAL", "INWARDS_ORDER", "INWARDS_UPDATING", "INWARDS_ALT_UPDATING",
                "EXCLUSION_ORDER", "EXCLUSION_UPDATING"}

UpdatingMethods == {"INWARDS_UPDATING", "INWARDS_ALT_UPDATING", "EXCLUSION_UPDATING"}

\* the sequences over S without a repeated element, of length at most d
RECURSIVE SeqsNoRepeat(_, _)
SeqsNoRepeat(S, d) ==
    IF d = 0 THEN {<<>>}
    ELSE LET shorter == SeqsNoRepeat(S, d - 1)
         IN  shorter \cup { Append(r, x) : r \in { q \in shorter : Len(q) = d - 1 }, x \in S }

NoRepeat(r) == \A i, j \in DOMAIN r : i # j => r[i] # r[j]

Increasing(r) == \A i, j \in DOMAIN r : i < j => r[i] < r[j]

\* the digraph with these rows (rows[v + 1] is the row of vertex v)
DigraphOfSeq(rows) == DigraphOfRows(Len(rows), ArrayOf(rows))

\* the NNGs of the model: every digraph on SmallVertices vertices whose rows
\* hold no vertex twice and at most SmallOutDegree arcs, in any order, and every
\* digraph on WideVertices vertices whose rows hold WideOutDegree arcs or none,
\* in increasing order; and the two NNGs of six vertices and the cycle below
SmallNNGs ==
    { DigraphOfSeq(rows) :
        rows \in [1 .. SmallVertices ->
                     { r \in SeqsNoRepeat(0 .. SmallVertices - 1, SmallOutDegree) : NoRepeat(r) }] }

WideNNGs ==
    { DigraphOfSeq(rows) :
        rows \in [1 .. WideVertices ->
                     { r \in SeqsNoRepeat(0 .. WideVertices - 1, WideOutDegree) :
                         Increasing(r) /\ Len(r) \in {0, WideOutDegree} }] }

PairsNNG == DigraphOfSeq(<< <<1>>, <<0>>, <<3>>, <<2>>, <<5>>, <<4>> >>)

TriplesNNG == DigraphOfSeq(<< <<1, 2>>, <<0, 2>>, <<0, 1>>, <<4, 5>>, <<3, 5>>, <<3, 4>> >>)

\* the cycle 0 -> 1 -> 2 -> 3 -> 0
CycleNNG == DigraphOfSeq(<< <<1>>, <<2>>, <<3>>, <<0>> >>)

\* iscc_find_seeds asserts a valid digraph that is not empty, with more than
\* one vertex
NNGs == { g \in SmallNNGs \cup WideNNGs \cup {PairsNNG, TriplesNNG, CycleNNG} :
            g.vertices > 1 /\ g.tail_ptr[g.vertices] > 0 }

\* the batch clusterer is not running; args only carries the width of scc_Clabel
BatchOff(clabel_max) ==
    /\ pc = "off"
    /\ args = [clabel_max |-> clabel_max]
    /\ cluster_label = <<>>
    /\ num_clusters = 0
    /\ assigned = <<>>
    /\ curr_point = 0
    /\ batch_indices = <<>>
    /\ row_i = 0
    /\ next_cluster_label = 0
    /\ search_done = FALSE
    /\ ec = "none"
    /\ oracle_opened = FALSE
    /\ seeds_formed = <<>>
    /\ queried = <<>>
    /\ oracle_memo = <<>>
    /\ results = <<>>
    /\ last_row = <<>>

NoSort == [inwards_count |-> <<>>, sorted_vertices |-> <<>>, vertex_index |-> <<>>,
           bucket_index |-> <<>>]

NoUpdate == [outer |-> <<>>, guard_outer |-> FALSE, i |-> 1, j |-> 1]

\* the call iscc_find_seeds(nng, seed_method, out_seeds) with an empty seed
\* result of capacity 1
SeedInit ==
    /\ nng \in NNGs
    /\ seed_method \in SeedMethods
    /\ stable_findseed \in BOOLEAN
    /\ stable_findseed => seed_method \in UpdatingMethods
    /\ \E m \in {MaxClabelMax, MaxClabelMax + WideVertices} :
          /\ (m = MaxClabelMax) => nng.vertices = SmallVertices
          /\ BatchOff(m)
    /\ fs_pc = "call"
    /\ out_seeds = [seeds |-> <<>>, count |-> 0, capacity |-> 1, ptr |-> "null"]
    /\ fs_ec = "none"
    /\ marks = <<>>
    /\ not_excluded = <<>>
    /\ exclusion_graph = <<>>
    /\ sort = NoSort
    /\ sorted_v = 0
    /\ upd = NoUpdate
    /\ examined = <<>>
    /\ AlgebraOff
    /\ AllocOff

Vertices == 0 .. nng.vertices - 1

Updating == seed_method \in UpdatingMethods

\* iscc_findseeds_lexical up to its loop
FsLexicalStart ==
    /\ fs_pc = "call"
    /\ seed_method = "LEXICAL"
    /\ marks' = [v \in Vertices |-> FALSE]
    /\ out_seeds' = [out_seeds EXCEPT !.ptr = "allocated"]
    /\ sorted_v' = 0
    /\ fs_pc' = "scan"
    /\ UNCHANGED <<nng, seed_method, stable_findseed, fs_ec, not_excluded, exclusion_graph,
                   sort, upd>>
    /\ UNCHANGED examined
    /\ UNCHANGED <<batchVars, algVars, allocVars>>

\* iscc_findseeds_inwards and iscc_findseeds_inwards_alt up to their loops
FsInwardsStart ==
    /\ fs_pc = "call"
    /\ seed_method \in {"INWARDS_ORDER", "INWARDS_UPDATING", "INWARDS_ALT_UPDATING"}
    /\ sort' = iscc_fs_sort_by_inwards(nng, Updating)
    /\ marks' = [v \in Vertices |-> FALSE]
    /\ out_seeds' = [out_seeds EXCEPT !.ptr = "allocated"]
    /\ sorted_v' = 0
    /\ fs_pc' = "scan"
    /\ UNCHANGED <<nng, seed_method, stable_findseed, fs_ec, not_excluded, exclusion_graph,
                   upd>>
    /\ UNCHANGED examined
    /\ UNCHANGED <<batchVars, algVars, allocVars>>

\* iscc_findseeds_exclusion up to its loop
FsExclusionStart ==
    /\ fs_pc = "call"
    /\ seed_method \in {"EXCLUSION_ORDER", "EXCLUSION_UPDATING"}
    /\ not_excluded' = [v \in Vertices |-> nng.tail_ptr[v] # nng.tail_ptr[v + 1]]
    /\ exclusion_graph' = iscc_fs_exclusion_graph(nng)
    /\ sort' = iscc_fs_sort_by_inwards(exclusion_graph', Updating)
    /\ out_seeds' = [out_seeds EXCEPT !.ptr = "allocated"]
    /\ sorted_v' = 0
    /\ fs_pc' = "scan"
    /\ UNCHANGED <<nng, seed_method, stable_findseed, fs_ec, marks, upd>>
    /\ UNCHANGED examined
    /\ UNCHANGED <<batchVars, algVars, allocVars>>

\* the loop of the scan has a vertex to look at
Scanning == fs_pc = "scan" /\ sorted_v < nng.vertices

\* *sorted_v (v in the lexical scan)
CurrentVertex ==
    IF seed_method = "LEXICAL" THEN sorted_v ELSE sort.sorted_vertices[sorted_v]

MarksMethods == {"LEXICAL", "INWARDS_ORDER", "INWARDS_UPDATING", "INWARDS_ALT_UPDATING"}

\* the digraph whose rows the decreasing loops walk
UpdateGraph == IF seed_method = "EXCLUSION_UPDATING" THEN exclusion_graph ELSE nng

\* a scan step of the methods with marks that finds a seed
\* (nng_findseeds.c:212-222, 264-290, 333-358)
FsSeed ==
    /\ Scanning
    /\ seed_method \in MarksMethods
    /\ iscc_fs_check_neighbors_marks(CurrentVertex, nng, marks)
    /\ out_seeds.count # SCC_CLABEL_MAX
    /\ out_seeds' = iscc_fs_add_seed(CurrentVertex, out_seeds)
    /\ marks' = iscc_fs_mark_seed_neighbors(CurrentVertex, nng, marks)
    /\ IF seed_method \in {"INWARDS_UPDATING", "INWARDS_ALT_UPDATING"}
       THEN /\ upd' = [outer |-> OutArcs(nng, CurrentVertex),
                       guard_outer |-> seed_method = "INWARDS_ALT_UPDATING",
                       i |-> 1, j |-> 1]
            /\ fs_pc' = "update"
            /\ UNCHANGED sorted_v
       ELSE /\ sorted_v' = sorted_v + 1
            /\ UNCHANGED <<upd, fs_pc>>
    /\ UNCHANGED <<nng, seed_method, stable_findseed, fs_ec, not_excluded, exclusion_graph,
                   sort>>
    /\ examined' = Append(examined, CurrentVertex)
    /\ UNCHANGED <<batchVars, algVars, allocVars>>

\* a scan step that finds a seed when SCC_CLABEL_MAX seeds are in the result:
\* iscc_fs_add_seed fails, the buffers are freed (nng_findseeds.c:215-219,
\* 267-272, 336-341, 456-462)
FsTooLarge ==
    /\ Scanning
    /\ IF seed_method \in MarksMethods
       THEN iscc_fs_check_neighbors_marks(CurrentVertex, nng, marks)
       ELSE not_excluded[CurrentVertex]
    /\ out_seeds.count = SCC_CLABEL_MAX
    /\ out_seeds' = FreedSeeds(out_seeds)
    /\ fs_ec' = "TOO_LARGE_PROBLEM"
    /\ fs_pc' = "done"
    /\ UNCHANGED <<nng, seed_method, stable_findseed, marks, not_excluded, exclusion_graph,
                   sort, sorted_v, upd>>
    /\ examined' = Append(examined, CurrentVertex)
    /\ UNCHANGED <<batchVars, algVars, allocVars>>

\* a scan step of the methods with marks that finds no seed; the alt method
\* decreases the neighbours of an unmarked vertex (nng_findseeds.c:359-368)
FsSkip ==
    /\ Scanning
    /\ seed_method \in MarksMethods
    /\ ~iscc_fs_check_neighbors_marks(CurrentVertex, nng, marks)
    /\ IF seed_method = "INWARDS_ALT_UPDATING" /\ ~marks[CurrentVertex]
       THEN /\ upd' = [outer |-> <<CurrentVertex>>, guard_outer |-> FALSE, i |-> 1, j |-> 1]
            /\ fs_pc' = "update"
            /\ UNCHANGED sorted_v
       ELSE /\ sorted_v' = sorted_v + 1
            /\ UNCHANGED <<upd, fs_pc>>
    /\ UNCHANGED <<nng, seed_method, stable_findseed, out_seeds, fs_ec, marks, not_excluded,
                   exclusion_graph, sort>>
    /\ examined' = Append(examined, CurrentVertex)
    /\ UNCHANGED <<batchVars, algVars, allocVars>>

\* the first pass over the arcs of a new seed in the exclusion graph
\* (nng_findseeds.c:485-491): the heads that were not excluded, in order
NewlyExcluded(arcs, ne) == SelectSeq(arcs, LAMBDA x : ne[x])

\* head after the first pass has written them to the start of the seed's row
WriteScratch(head, start, written) ==
    [p \in DOMAIN head |->
        IF start <= p /\ p < start + Len(written) THEN written[p - start + 1] ELSE head[p]]

\* a scan step of the exclusion methods on a vertex that is not excluded: it
\* is a seed (nng_findseeds.c:453-504)
FsExclusionSeed ==
    /\ Scanning
    /\ seed_method \notin MarksMethods
    /\ not_excluded[CurrentVertex]
    /\ out_seeds.count # SCC_CLABEL_MAX
    /\ out_seeds' = iscc_fs_add_seed(CurrentVertex, out_seeds)
    /\ LET v == CurrentVertex
           ne1 == [not_excluded EXCEPT ![v] = FALSE]
           ex_arcs == OutArcs(exclusion_graph, v)
           written == NewlyExcluded(ex_arcs, ne1)
       IN  /\ not_excluded' = [x \in Vertices |-> IF x \in Range(ex_arcs) THEN FALSE ELSE ne1[x]]
           /\ IF seed_method = "EXCLUSION_UPDATING"
              THEN /\ exclusion_graph' =
                         [exclusion_graph EXCEPT
                             !.head = WriteScratch(@, exclusion_graph.tail_ptr[v], written)]
                   /\ upd' = [outer |-> written, guard_outer |-> FALSE, i |-> 1, j |-> 1]
                   /\ fs_pc' = "update"
                   /\ UNCHANGED sorted_v
              ELSE /\ sorted_v' = sorted_v + 1
                   /\ UNCHANGED <<exclusion_graph, upd, fs_pc>>
    /\ UNCHANGED <<nng, seed_method, stable_findseed, fs_ec, marks, sort>>
    /\ examined' = Append(examined, CurrentVertex)
    /\ UNCHANGED <<batchVars, algVars, allocVars>>

\* a scan step of the exclusion methods on an excluded vertex
FsExclusionSkip ==
    /\ Scanning
    /\ seed_method \notin MarksMethods
    /\ ~not_excluded[CurrentVertex]
    /\ sorted_v' = sorted_v + 1
    /\ UNCHANGED <<fs_pc, nng, seed_method, stable_findseed, out_seeds, fs_ec, marks,
                   not_excluded, exclusion_graph, sort, upd>>
    /\ examined' = Append(examined, CurrentVertex)
    /\ UNCHANGED <<batchVars, algVars, allocVars>>

\* every vertex of a row walked is decreased
CanDecreaseAlways(b) == TRUE

\* the condition under which the decreasing loops decrease vertex b
\* (nng_findseeds.c:284, 353, 364, 498)
CanDecrease(b) ==
    IF seed_method = "EXCLUSION_UPDATING" THEN not_excluded[b]
    ELSE /\ ~marks[b]
         /\ sorted_v < sort.vertex_index[b]
         /\ nng.tail_ptr[b] # nng.tail_ptr[b + 1]

\* the row of the i-th vertex of the outer loop is walked
\* (nng_findseeds.c:348: the alt method after a seed only walks the rows of
\* vertices after the cursor; the guard of the row the loop is in has passed)
RowWalked(i) ==
    \/ ~upd.guard_outer
    \/ (i = upd.i /\ upd.j > 1)
    \/ sorted_v < sort.vertex_index[upd.outer[i]]

\* the places <<i, j>> from the current one on, in the order of the loops,
\* at which a vertex is decreased
DecreasePlaces ==
    { ij \in { <<i, j>> : i \in upd.i .. Len(upd.outer), j \in 1 .. nng.vertices } :
        /\ ij[2] <= Len(OutArcs(UpdateGraph, upd.outer[ij[1]]))
        /\ ij[1] > upd.i \/ ij[2] >= upd.j
        /\ RowWalked(ij[1])
        /\ CanDecrease(OutArcs(UpdateGraph, upd.outer[ij[1]])[ij[2]]) }

NextPlace ==
    CHOOSE ij \in DecreasePlaces :
        \A other \in DecreasePlaces :
            ij[1] < other[1] \/ (ij[1] = other[1] /\ ij[2] <= other[2])

\* the decreasing loops run up to their next call of
\* iscc_fs_decrease_v_in_sort, and the call; a call that leaves its arrays has
\* no defined outcome
FsDecrease ==
    /\ fs_pc = "update"
    /\ DecreasePlaces # {}
    /\ LET b == OutArcs(UpdateGraph, upd.outer[NextPlace[1]])[NextPlace[2]]
       IN  IF DecreaseDefined(b, sort, sorted_v, stable_findseed)
           THEN /\ sort' = iscc_fs_decrease_v_in_sort(b, sort, sorted_v, stable_findseed)
                /\ upd' = [upd EXCEPT !.i = NextPlace[1], !.j = NextPlace[2] + 1]
                /\ UNCHANGED fs_pc
           ELSE /\ fs_pc' = "undefined"
                /\ UNCHANGED <<sort, upd>>
    /\ UNCHANGED <<nng, seed_method, stable_findseed, out_seeds, fs_ec, marks, not_excluded,
                   exclusion_graph, sorted_v>>
    /\ UNCHANGED examined
    /\ UNCHANGED <<batchVars, algVars, allocVars>>

\* the decreasing loops run to their end; the scan moves on
FsUpdateDone ==
    /\ fs_pc = "update"
    /\ DecreasePlaces = {}
    /\ upd' = NoUpdate
    /\ sorted_v' = sorted_v + 1
    /\ fs_pc' = "scan"
    /\ UNCHANGED <<nng, seed_method, stable_findseed, out_seeds, fs_ec, marks, not_excluded,
                   exclusion_graph, sort>>
    /\ UNCHANGED examined
    /\ UNCHANGED <<batchVars, algVars, allocVars>>

\* the scan is over: iscc_find_seeds shrinks the seed array to the seeds
\* found (nng_findseeds.c:170-181)
FsFinish ==
    /\ fs_pc = "scan"
    /\ sorted_v = nng.vertices
    /\ fs_ec' = "OK"
    /\ out_seeds' = IF out_seeds.count < out_seeds.capacity /\ out_seeds.count > 0
                    THEN [out_seeds EXCEPT !.capacity = out_seeds.count]
                    ELSE out_seeds
    /\ fs_pc' = "done"
    /\ UNCHANGED <<nng, seed_method, stable_findseed, marks, not_excluded, exclusion_graph,
                   sort, sorted_v, upd>>
    /\ UNCHANGED examined
    /\ UNCHANGED <<batchVars, algVars, allocVars>>

SeedNext ==
    \/ FsLexicalStart
    \/ FsInwardsStart
    \/ FsExclusionStart
    \/ FsSeed
    \/ FsTooLarge
    \/ FsSkip
    \/ FsExclusionSeed
    \/ FsExclusionSkip
    \/ FsDecrease
    \/ FsUpdateDone
    \/ FsFinish

SpecSeeds == SeedInit /\ [][SeedNext]_vars

(***************************************************************************)
(* Part III.  The digraph operations called on their own                   *)
(* (src/unnamed/part_002).                                                 *)
(***************************************************************************)

\* the sequences over S of length at most d
RECURSIVE SeqsUpTo(_, _)
SeqsUpTo(S, d) ==
    IF d = 0 THEN {<<>>}
    ELSE LET shorter == SeqsUpTo(S, d - 1)
         IN  shorter \cup { Append(r, x) : r \in { q \in shorter : Len(q) = d - 1 }, x \in S }

\* the valid digraphs on n vertices with at most d arcs in a row: loops are
\* allowed, and so is the same arc twice in a row
DigraphsOn(n, d) == { DigraphOfSeq(rows) : rows \in [1 .. n -> SeqsUpTo(0 .. n - 1, d)] }

AlgDigraphs == DigraphsOn(AlgVertices, AlgOutDegree)

PairDigraphs == DigraphsOn(PairVertices, PairOutDegree)

\* no row holds a head twice
RowsNoRepeat(g) == \A v \in 0 .. g.vertices - 1 : NoRepeat(OutArcs(g, v))

SimplePairDigraphs == { g \in PairDigraphs : RowsNoRepeat(g) }

\* iscc_empty_digraph(n, 0)
EmptyDigraph(n) == DigraphOfSeq([v \in 1 .. n |-> <<>>])

\* the digraph with the arc v -> v for every v
IdentityDigraph(n) == DigraphOfSeq([v \in 1 .. n |-> <<v - 1>>])

\* the caller is about to call one operation
AlgebraInit ==
    /\ BatchOff(MaxClabelMax)
    /\ SeedsOff /\ AllocOff
    /\ op_pc = "call"
    /\ out_dg = <<>>
    /\ \/ /\ operation = "union"
          /\ in_dgs \in { <<g>> : g \in AlgDigraphs }
                        \cup (SimplePairDigraphs \X SimplePairDigraphs \X SimplePairDigraphs)
          /\ op_args \in { [first_init_fails |-> f] : f \in BOOLEAN }
       \/ /\ operation = "union_and_delete"
          /\ in_dgs \in PairDigraphs \X PairDigraphs
          /\ op_args \in { [first_init_fails |-> f, tails_to_keep |-> t] :
                              f \in BOOLEAN, t \in [0 .. PairVertices - 1 -> BOOLEAN] }
       \/ /\ operation = "difference"
          /\ in_dgs \in { <<g>> : g \in AlgDigraphs } \cup (PairDigraphs \X PairDigraphs)
          /\ op_args \in { [first_init_fails |-> f, max_out_degree |-> d] :
                              f \in BOOLEAN, d \in 1 .. MaxOutDegreeCap }
       \/ /\ operation = "transpose"
          /\ in_dgs \in { <<g>> : g \in AlgDigraphs }
          /\ op_args = <<>>
       \/ /\ operation = "adjacency_product"
          /\ in_dgs \in { <<g>> : g \in AlgDigraphs } \cup (PairDigraphs \X PairDigraphs)
          /\ op_args \in { [first_init_fails |-> f, force_loops |-> fl, ignore_loops |-> il] :
                              f \in BOOLEAN, fl \in BOOLEAN, il \in BOOLEAN }
          /\ ~(op_args.force_loops /\ op_args.ignore_loops)
          /\ Len(in_dgs) = 1 => ~op_args.force_loops /\ ~op_args.ignore_loops
       \/ /\ operation = "delete_loops"
          /\ in_dgs \in { <<g>> : g \in AlgDigraphs }
          /\ op_args = <<>>

\* what a call hands back: the digraph, the greedy count, what the pass
\* without writing returned (-1 when it did not run), and the arcs the buffer
\* had room for while it was written: the greedy count, or the count of the
\* pass without writing when iscc_init_digraph failed for the greedy count
Made(dg, greedy, counted) ==
    [dg |-> dg,
     greedy |-> greedy,
     counted |-> IF op_args.first_init_fails THEN counted ELSE -1,
     allocated |-> IF op_args.first_init_fails THEN counted ELSE greedy]

UnionCall(dgs) ==
    Made(iscc_digraph_union(dgs), UnionGreedyCount(dgs),
         iscc_do_union_count(dgs[1].vertices, dgs))

\* iscc_digraph_union of one digraph, or of three digraphs in pairs: a with
\* b, b with a, and each of these results with the third
OpUnion ==
    /\ op_pc = "call"
    /\ operation = "union"
    /\ out_dg' = IF Len(in_dgs) = 1 THEN [g |-> UnionCall(in_dgs)]
                 ELSE LET a == in_dgs[1]
                          b == in_dgs[2]
                          c == in_dgs[3]
                      IN  With(UnionCall(<<a, b>>), LAMBDA ab :
                            With(UnionCall(<<b, c>>), LAMBDA bc :
                                [ab |-> ab,
                                 ba |-> UnionCall(<<b, a>>),
                                 bc |-> bc,
                                 ab_c |-> UnionCall(<<ab.dg, c>>),
                                 a_bc |-> UnionCall(<<a, bc.dg>>)]))
    /\ op_pc' = "done"
    /\ UNCHANGED <<operation, in_dgs, op_args>>
    /\ UNCHANGED <<batchVars, seedVars, allocVars>>

OpUnionAndDelete ==
    /\ op_pc = "call"
    /\ operation = "union_and_delete"
    /\ out_dg' = [g |-> Made(iscc_digraph_union_and_delete(in_dgs, op_args.tails_to_keep),
                             UnionGreedyCount(in_dgs),
                             iscc_do_union_and_delete_count(in_dgs[1].vertices, in_dgs,
                                                            op_args.tails_to_keep))]
    /\ op_pc' = "done"
    /\ UNCHANGED <<operation, in_dgs, op_args>>
    /\ UNCHANGED <<batchVars, seedVars, allocVars>>

DifferenceCall(minuend_dg, subtrahend_dg) ==
    Made(iscc_digraph_difference(minuend_dg, subtrahend_dg, op_args.max_out_degree),
         DifferenceGreedyCount(minuend_dg),
         iscc_do_difference_count(minuend_dg.vertices, minuend_dg, subtrahend_dg,
                                  op_args.max_out_degree))

\* iscc_digraph_difference of a digraph and the empty digraph and of the
\* digraph and itself, or of two digraphs
OpDifference ==
    /\ op_pc = "call"
    /\ operation = "difference"
    /\ out_dg' = IF Len(in_dgs) = 1
                 THEN [minus_empty |-> DifferenceCall(in_dgs[1], EmptyDigraph(in_dgs[1].vertices)),
                       minus_self |-> DifferenceCall(in_dgs[1], in_dgs[1])]
                 ELSE [g |-> DifferenceCall(in_dgs[1], in_dgs[2])]
    /\ op_pc' = "done"
    /\ UNCHANGED <<operation, in_dgs, op_args>>
    /\ UNCHANGED <<batchVars, seedVars, allocVars>>

\* iscc_digraph_transpose of a digraph, and of the result; iscc_empty_digraph
\* gives out_dg room for the arcs of in_dg
OpTranspose ==
    /\ op_pc = "call"
    /\ operation = "transpose"
    /\ out_dg' = With(iscc_digraph_transpose(in_dgs[1]), LAMBDA t :
                    [t |-> [dg |-> t, allocated |-> in_dgs[1].tail_ptr[in_dgs[1].vertices]],
                     tt |-> [dg |-> iscc_digraph_transpose(t),
                             allocated |-> t.tail_ptr[t.vertices]]])
    /\ op_pc' = "done"
    /\ UNCHANGED <<operation, in_dgs, op_args>>
    /\ UNCHANGED <<batchVars, seedVars, allocVars>>

ProductCall(in_dg_a, in_dg_b) ==
    Made(iscc_adjacency_product(in_dg_a, in_dg_b, op_args.force_loops, op_args.ignore_loops),
         ProductGreedyCount(in_dg_a, in_dg_b, op_args.force_loops, op_args.ignore_loops),
         iscc_do_adjacency_product_count(in_dg_a.vertices, in_dg_a, in_dg_b,
                                         op_args.force_loops, op_args.ignore_loops))

\* iscc_adjacency_product of a digraph and the identity, or of two digraphs
OpAdjacencyProduct ==
    /\ op_pc = "call"
    /\ operation = "adjacency_product"
    /\ out_dg' = IF Len(in_dgs) = 1
                 THEN [by_identity |-> ProductCall(in_dgs[1], IdentityDigraph(in_dgs[1].vertices))]
                 ELSE [g |-> ProductCall(in_dgs[1], in_dgs[2])]
    /\ op_pc' = "done"
    /\ UNCHANGED <<operation, in_dgs, op_args>>
    /\ UNCHANGED <<batchVars, seedVars, allocVars>>

\* iscc_delete_loops_check_error changes dg itself
OpDeleteLoops ==
    /\ op_pc = "call"
    /\ operation = "delete_loops"
    /\ out_dg' = [g |-> [dg |-> iscc_delete_loops_check_error(in_dgs[1]),
                         allocated |-> in_dgs[1].max_arcs]]
    /\ op_pc' = "done"
    /\ UNCHANGED <<operation, in_dgs, op_args>>
    /\ UNCHANGED <<batchVars, seedVars, allocVars>>

AlgebraNext ==
    \/ OpUnion
    \/ OpUnionAndDelete
    \/ OpDifference
    \/ OpTranspose
    \/ OpAdjacencyProduct
    \/ OpDeleteLoops

SpecAlgebra == AlgebraInit /\ [][AlgebraNext]_vars


(***************************************************************************)
(* Part IV.  The buffers of iscc_find_seeds and of the algebra operators,  *)
(* with every allocation able to fail.  A step runs the code from one      *)
(* allocation point to the next, or to the return.  A digraph counts as    *)
(* one buffer: iscc_init_digraph makes it or makes nothing,                *)
(* iscc_free_digraph releases it and resets the value to null, and a       *)
(* failed iscc_change_arc_storage leaves it as it was.                     *)
(***************************************************************************)

\* the seeds a scan finds, and the capacity out_seeds is handed in with
MaxSeedsFound == 3
MaxSeedCapacity == 2

SortBuffers == {"inwards_count", "sorted_vertices", "vertex_index", "bucket_index"}

Buffers ==
    {"marks", "seeds", "not_excluded", "tmp_index_not_excluded", "bucket_count",
     "exclusion_graph", "nng_transpose", "nng_nng_transpose", "row_markers", "out_dg"}
        \cup SortBuffers

\* the digraphs iscc_findseeds_exclusion and iscc_fs_exclusion_graph declare
\* without a value; the out_dg of an operator has the value its caller gave it
LocalDigraphs == {"exclusion_graph", "nng_transpose", "nng_nng_transpose"}

AllocOperators == {"union", "union_and_delete", "difference", "transpose", "adjacency_product"}

NoOp == [name |-> "none", out |-> "none", ret |-> "none"]

\* malloc, calloc: the pointer is NULL after a failure
Malloc(h, b, ok) == [h EXCEPT ![b] = IF ok THEN "live" ELSE "null"]

\* free of each pointer of bs: free(NULL) does nothing, and the pointer of a
\* freed buffer is left dangling
FreeAll(h, bs) ==
    [b \in DOMAIN h |-> IF b \in bs /\ h[b] = "live" THEN "dangling" ELSE h[b]]

\* free of each pointer of bs, and the pointer set to NULL
Release(h, bs) == [b \in DOMAIN h |-> IF b \in bs THEN "null" ELSE h[b]]

\* the pointers of bs that do not point to a buffer: to free one that is
\* dangling, or to read or write through one, is undefined
DoubleFreed(h, bs) == { b \in bs : h[b] = "dangling" }

Use(h, bs) == { b \in bs : h[b] # "live" }

iscc_init_digraph(h, dg, ok) == Malloc(h, dg, ok)

iscc_free_digraph(h, dg) == Release(h, {dg})

AlExclusion == al_in.seed_method \in {"EXCLUSION_ORDER", "EXCLUSION_UPDATING"}

AlLexical == al_in.seed_method = "LEXICAL"

\* the make_indices (updating) argument of iscc_fs_sort_by_inwards
AlMakeIndices == al_in.seed_method \in UpdatingMethods

\* where a call starts: the switch of iscc_find_seeds, or the operator
StartOf(in) ==
    IF in.entry = "find_seeds"
    THEN IF in.seed_method = "LEXICAL" THEN "marks_seeds"
         ELSE IF in.seed_method \in {"EXCLUSION_ORDER", "EXCLUSION_UPDATING"}
              THEN "not_excluded" ELSE "sort_first"
    ELSE IF in.entry = "transpose" THEN "op_empty" ELSE "op_row_markers"

AllocInit ==
    /\ BatchOff(MaxClabelMax) /\ SeedsOff /\ AlgebraOff
    /\ al_in \in [entry : {"find_seeds"}, seed_method : SeedMethods,
                  all_have_arcs : BOOLEAN, seeds_found : 1 .. MaxSeedsFound,
                  capacity : 1 .. MaxSeedCapacity, out_dg : {"null"}]
            \cup [entry : AllocOperators, seed_method : {"none"},
                  all_have_arcs : {TRUE}, seeds_found : {0}, capacity : {0},
                  out_dg : {"null", "indeterminate"}]
    /\ al_pc = StartOf(al_in)
    /\ al_op = IF al_in.entry = "find_seeds" THEN NoOp
               ELSE [name |-> al_in.entry, out |-> "out_dg", ret |-> "returned"]
    /\ heap = [b \in Buffers |-> IF b = "out_dg" THEN al_in.out_dg
                                 ELSE IF b \in LocalDigraphs THEN "indeterminate"
                                 ELSE "null"]
    /\ al_ec = "none"
    /\ al_seeds = [count |-> 0, capacity |-> al_in.capacity]
    /\ misused = {}

\* a return of iscc_find_seeds after the frees of a failure path
FsReturn(h, frees, error, used) ==
    /\ heap' = FreeAll(h, frees)
    /\ misused' = misused \cup used \cup DoubleFreed(h, frees)
    /\ al_ec' = error
    /\ al_pc' = "returned"
    /\ UNCHANGED <<al_in, al_op, al_seeds>>

\* the code goes on to the allocation point next
GoOn(h, next) ==
    /\ heap' = h
    /\ al_pc' = next
    /\ UNCHANGED <<al_in, al_op, al_ec, al_seeds, misused>>

\* the return of an algebra operator to its caller
OpReturn(h, error) ==
    /\ heap' = h
    /\ al_ec' = error
    /\ al_pc' = al_op.ret
    /\ al_op' = NoOp
    /\ UNCHANGED <<al_in, al_seeds, misused>>

\* the call of an algebra operator by iscc_fs_exclusion_graph
OpCall(h, name, out, ret) ==
    /\ heap' = h
    /\ al_op' = [name |-> name, out |-> out, ret |-> ret]
    /\ al_pc' = IF name = "transpose" THEN "op_empty" ELSE "op_row_markers"
    /\ UNCHANGED <<al_in, al_ec, al_seeds, misused>>

\* iscc_digraph_transpose: iscc_empty_digraph is its one allocation
AlOpEmpty ==
    /\ al_pc = "op_empty"
    /\ \E ok \in BOOLEAN :
          OpReturn(iscc_init_digraph(heap, al_op.out, ok), IF ok THEN "OK" ELSE "NO_MEMORY")
    /\ UNCHANGED <<batchVars, seedVars, algVars>>

\* the malloc of row_markers of union, union_and_delete, difference and
\* adjacency_product
AlOpRowMarkers ==
    /\ al_pc = "op_row_markers"
    /\ \E ok \in BOOLEAN :
          IF ok THEN GoOn(Malloc(heap, "row_markers", TRUE), "op_init")
          ELSE OpReturn(Malloc(heap, "row_markers", FALSE), "NO_MEMORY")
    /\ UNCHANGED <<batchVars, seedVars, algVars>>

\* iscc_init_digraph with the greedy count
AlOpInit ==
    /\ al_pc = "op_init"
    /\ \E ok \in BOOLEAN :
          IF ok THEN GoOn(iscc_init_digraph(heap, al_op.out, TRUE), "op_write")
          ELSE GoOn(heap, "op_retry")
    /\ UNCHANGED <<batchVars, seedVars, algVars>>

\* the count without writing, over row_markers, and iscc_init_digraph again
AlOpRetry ==
    /\ al_pc = "op_retry"
    /\ \E ok \in BOOLEAN :
          IF ok
          THEN /\ GoOn(iscc_init_digraph(heap, al_op.out, TRUE), "op_write")
          ELSE /\ OpReturn(FreeAll(heap, {"row_markers"}), "NO_MEMORY")
    /\ UNCHANGED <<batchVars, seedVars, algVars>>

\* the writing pass, free(row_markers) and iscc_change_arc_storage
AlOpWrite ==
    /\ al_pc = "op_write"
    /\ \E ok \in BOOLEAN :
          LET written == FreeAll(heap, {"row_markers"})
          IN  IF ok THEN OpReturn(written, "OK")
              ELSE OpReturn(iscc_free_digraph(written, al_op.out), "NO_MEMORY")
    /\ UNCHANGED <<batchVars, seedVars, algVars>>

\* iscc_findseeds_exclusion: the malloc of not_excluded
AlNotExcluded ==
    /\ al_pc = "not_excluded"
    /\ \E ok \in BOOLEAN :
          IF ok THEN GoOn(Malloc(heap, "not_excluded", TRUE), "tmp_index")
          ELSE FsReturn(Malloc(heap, "not_excluded", FALSE), {}, "NO_MEMORY", {})
    /\ UNCHANGED <<batchVars, seedVars, algVars>>

\* iscc_findseeds_exclusion from the malloc of tmp_index_not_excluded to the
\* call of iscc_fs_exclusion_graph, which starts with the transpose.  After a
\* failed malloc not_excluded is freed and the code does not return: the loop
\* writes through both pointers, which is undefined and either stops the
\* program or lets it go on.
AlTmpIndex ==
    /\ al_pc = "tmp_index"
    /\ \E ok \in BOOLEAN :
          LET got == Malloc(heap, "tmp_index_not_excluded", ok)
              checked == IF ok THEN got ELSE FreeAll(got, {"not_excluded"})
              used == Use(checked, {"not_excluded", "tmp_index_not_excluded"})
              filled == IF al_in.all_have_arcs
                        THEN Release(checked, {"tmp_index_not_excluded"})
                        ELSE checked
          IN  /\ misused' = misused \cup used
              /\ \/ /\ heap' = filled
                    /\ al_op' = [name |-> "transpose", out |-> "nng_transpose",
                                 ret |-> "xg_product"]
                    /\ al_pc' = "op_empty"
                 \/ /\ used # {}
                    /\ heap' = checked
                    /\ al_pc' = "stopped"
                    /\ UNCHANGED al_op
              /\ UNCHANGED <<al_in, al_ec, al_seeds>>
    /\ UNCHANGED <<batchVars, seedVars, algVars>>

\* iscc_fs_exclusion_graph has failed: iscc_findseeds_exclusion frees
\* not_excluded and returns
ExclusionGraphFailed(h) == FsReturn(h, {"not_excluded"}, al_ec, {})

\* iscc_fs_exclusion_graph after the transpose
AlXgProduct ==
    /\ al_pc = "xg_product"
    /\ IF al_ec # "OK" THEN ExclusionGraphFailed(heap)
       ELSE OpCall(heap, "adjacency_product", "nng_nng_transpose", "xg_union")
    /\ UNCHANGED <<batchVars, seedVars, algVars>>

\* iscc_fs_exclusion_graph after the product
AlXgUnion ==
    /\ al_pc = "xg_union"
    /\ LET h == iscc_free_digraph(heap, "nng_transpose")
       IN  IF al_ec # "OK" THEN ExclusionGraphFailed(h)
           ELSE OpCall(h, "union_and_delete", "exclusion_graph", "xg_done")
    /\ UNCHANGED <<batchVars, seedVars, algVars>>

\* iscc_fs_exclusion_graph after the union, and iscc_findseeds_exclusion up
\* to its call of iscc_fs_sort_by_inwards
AlXgDone ==
    /\ al_pc = "xg_done"
    /\ LET h == iscc_free_digraph(heap, "nng_nng_transpose")
       IN  IF al_ec # "OK" THEN ExclusionGraphFailed(h)
           ELSE GoOn(Release(h, {"tmp_index_not_excluded"}), "sort_first")
    /\ UNCHANGED <<batchVars, seedVars, algVars>>

\* iscc_fs_sort_by_inwards has freed its arrays and failed: the inwards
\* methods return, the exclusion methods free what they hold
SortFailed(h) ==
    FsReturn(FreeAll(h, SortBuffers),
             IF AlExclusion THEN {"not_excluded", "exclusion_graph"} ELSE {},
             "NO_MEMORY", {})

AfterSort == IF AlExclusion THEN "ex_seeds" ELSE "marks_seeds"

\* iscc_fs_sort_by_inwards: inwards_count and sorted_vertices
AlSortFirst ==
    /\ al_pc = "sort_first"
    /\ \E ic_ok, sv_ok \in BOOLEAN :
          LET h == Malloc(Malloc(heap, "inwards_count", ic_ok), "sorted_vertices", sv_ok)
          IN  IF ic_ok /\ sv_ok THEN GoOn(h, "sort_buckets") ELSE SortFailed(h)
    /\ UNCHANGED <<batchVars, seedVars, algVars>>

\* iscc_fs_sort_by_inwards: bucket_count and bucket_index, and without
\* make_indices the rest of the function
AlSortBuckets ==
    /\ al_pc = "sort_buckets"
    /\ \E bc_ok, bi_ok \in BOOLEAN :
          LET h == Malloc(Malloc(heap, "bucket_count", bc_ok), "bucket_index", bi_ok)
              counted == FreeAll(h, {"bucket_count"})
          IN  IF ~(bc_ok /\ bi_ok) THEN SortFailed(counted)
              ELSE IF AlMakeIndices THEN GoOn(counted, "sort_index")
              ELSE GoOn(Release(counted, {"inwards_count", "bucket_index"}), AfterSort)
    /\ UNCHANGED <<batchVars, seedVars, algVars>>

\* iscc_fs_sort_by_inwards: vertex_index
AlSortIndex ==
    /\ al_pc = "sort_index"
    /\ \E ok \in BOOLEAN :
          IF ok THEN GoOn(Malloc(heap, "vertex_index", TRUE), AfterSort)
          ELSE SortFailed(Malloc(heap, "vertex_index", FALSE))
    /\ UNCHANGED <<batchVars, seedVars, algVars>>

\* what the scan of a method frees when it ends, out_seeds->seeds apart
LoopFrees ==
    IF AlExclusion THEN {"not_excluded", "exclusion_graph"} \cup SortBuffers
    ELSE IF AlLexical THEN {"marks"}
    ELSE SortBuffers \cup {"marks"}

\* what a round of the scan reads
LoopUses ==
    IF AlExclusion THEN {"not_excluded", "exclusion_graph", "sorted_vertices"}
    ELSE IF AlLexical THEN {"marks"}
    ELSE {"marks", "sorted_vertices"}

\* iscc_findseeds_lexical, iscc_findseeds_inwards and
\* iscc_findseeds_inwards_alt: marks and out_seeds->seeds
AlMarksSeeds ==
    /\ al_pc = "marks_seeds"
    /\ \E m_ok, s_ok \in BOOLEAN :
          LET h == Malloc(Malloc(heap, "marks", m_ok), "seeds", s_ok)
          IN  IF m_ok /\ s_ok THEN GoOn(h, "loop")
              ELSE FsReturn(h, LoopFrees \cup {"seeds"}, "NO_MEMORY", {})
    /\ UNCHANGED <<batchVars, seedVars, algVars>>

\* iscc_findseeds_exclusion: out_seeds->seeds
AlExSeeds ==
    /\ al_pc = "ex_seeds"
    /\ \E ok \in BOOLEAN :
          IF ok THEN GoOn(Malloc(heap, "seeds", TRUE), "loop")
          ELSE FsReturn(Malloc(heap, "seeds", FALSE), LoopFrees, "NO_MEMORY", {})
    /\ UNCHANGED <<batchVars, seedVars, algVars>>

\* the scan up to and with its next call of iscc_fs_add_seed
AlAddSeed ==
    /\ al_pc = "loop"
    /\ al_seeds.count < al_in.seeds_found
    /\ LET used == Use(heap, LoopUses \cup {"seeds"})
           added(capacity) ==
               /\ al_seeds' = [count |-> al_seeds.count + 1, capacity |-> capacity]
               /\ misused' = misused \cup used
               /\ UNCHANGED <<al_pc, al_in, al_op, heap, al_ec>>
       IN  IF al_seeds.count = SCC_CLABEL_MAX
           THEN FsReturn(heap, LoopFrees \cup {"seeds"}, "TOO_LARGE_PROBLEM", used)
           ELSE IF al_seeds.count = al_seeds.capacity
           THEN \E ok \in BOOLEAN :
                   IF ok THEN added(GrownCapacity(al_seeds.capacity))
                   ELSE FsReturn(heap, LoopFrees \cup {"seeds"}, "NO_MEMORY", used)
           ELSE added(al_seeds.capacity)
    /\ UNCHANGED <<batchVars, seedVars, algVars>>

\* the scan is over: the method frees its buffers and iscc_find_seeds shrinks
\* the seed array, which may fail and then leaves the array as it is
AlLoopDone ==
    /\ al_pc = "loop"
    /\ al_seeds.count = al_in.seeds_found
    /\ heap' = FreeAll(heap, LoopFrees)
    /\ misused' = misused \cup DoubleFreed(heap, LoopFrees)
    /\ al_ec' = "OK"
    /\ al_pc' = "returned"
    /\ \E ok \in BOOLEAN :
          al_seeds' = IF ok /\ al_seeds.count < al_seeds.capacity /\ al_seeds.count > 0
                      THEN [al_seeds EXCEPT !.capacity = al_seeds.count]
                      ELSE al_seeds
    /\ UNCHANGED <<al_in, al_op>>
    /\ UNCHANGED <<batchVars, seedVars, algVars>>

AllocNext ==
    \/ AlOpEmpty
    \/ AlOpRowMarkers
    \/ AlOpInit
    \/ AlOpRetry
    \/ AlOpWrite
    \/ AlNotExcluded
    \/ AlTmpIndex
    \/ AlXgProduct
    \/ AlXgUnion
    \/ AlXgDone
    \/ AlSortFirst
    \/ AlSortBuckets
    \/ AlSortIndex
    \/ AlMarksSeeds
    \/ AlExSeeds
    \/ AlAddSeed
    \/ AlLoopDone

SpecAlloc == AllocInit /\ [][AllocNext]_vars


(***************************************************************************)
(* Part V.  The digraph store: iscc_free_digraph and                       *)
(* iscc_change_arc_storage applied to the digraph a caller holds.  A       *)
(* pointer is NULL or points to one buffer.  The calls are those of        *)
(* scc_ut_free_digraph and scc_ut_change_arc_storage, over every digraph   *)
(* value of the bounds.  out_dg holds the caller's digraph and the error   *)
(* code of the last call, in_dgs the digraph before the last call.         *)
(***************************************************************************)

\* the vertices of a digraph of the store, and the model's arc-index limit
StoreVertices == 2
ISCC_ARCI_MAX == 2

NULL == <<>>

PointerTo(buffer) == <<buffer>>

ISCC_NULL_DIGRAPH == [vertices |-> 0, max_arcs |-> 0, head |-> NULL, tail_ptr |-> NULL]

\* the pointers to a buffer of len cells with values of vals
StoreBuffers(len, vals) == { PointerTo(b) : b \in [0 .. len - 1 -> vals] }

\* the digraph values of scc_ut_free_digraph: both buffers present, head
\* absent with max_arcs 0 or more, tail_ptr absent, and the null digraph
StoreDigraphs ==
    {ISCC_NULL_DIGRAPH} \cup
    UNION { UNION { [vertices : {n}, max_arcs : {m},
                     head : {NULL} \cup (IF m > 0 THEN StoreBuffers(m, 0 .. n - 1) ELSE {}),
                     tail_ptr : {NULL} \cup StoreBuffers(n + 1, 0 .. 1)]
                    : m \in 0 .. ISCC_ARCI_MAX }
            : n \in 1 .. StoreVertices }

\* iscc_digraph_is_initialized of a digraph that is not behind a null pointer
iscc_digraph_is_initialized(dg) ==
    /\ dg.tail_ptr # NULL
    /\ dg.max_arcs <= ISCC_ARCI_MAX
    /\ dg.max_arcs = 0 <=> dg.head = NULL

\* iscc_free_digraph with only the pointers reset
FreeKeepsCounts(dg) == [dg EXCEPT !.head = NULL, !.tail_ptr = NULL]

\* iscc_free_digraph of a digraph that is not behind a null pointer: both
\* buffers are freed and the value is reset
iscc_free_digraph_value(dg) == ISCC_NULL_DIGRAPH

\* realloc of the buffer behind head to new_max_arcs cells: the cells kept
\* keep their values, the cells added hold what the allocator left there
Resized(head, new_max_arcs, fill) ==
    PointerTo([i \in 0 .. new_max_arcs - 1 |->
                  IF head # NULL /\ i \in DOMAIN head[1] THEN head[1][i] ELSE fill])

\* iscc_change_arc_storage that keeps head when the new capacity is 0
ChangeArcStorageKeepsHead(dg, new_max_arcs, realloc_ok, fill) ==
    IF new_max_arcs > ISCC_ARCI_MAX THEN [dg |-> dg, ec |-> "TOO_LARGE_DIGRAPH"]
    ELSE [dg |-> [dg EXCEPT !.max_arcs = new_max_arcs], ec |-> "OK"]

\* iscc_change_arc_storage
iscc_change_arc_storage(dg, new_max_arcs, realloc_ok, fill) ==
    IF new_max_arcs > ISCC_ARCI_MAX THEN [dg |-> dg, ec |-> "TOO_LARGE_DIGRAPH"]
    ELSE IF new_max_arcs = dg.max_arcs THEN [dg |-> dg, ec |-> "OK"]
    ELSE IF new_max_arcs = 0
    THEN [dg |-> [dg EXCEPT !.max_arcs = 0, !.head = NULL], ec |-> "OK"]
    ELSE IF realloc_ok
    THEN [dg |-> [dg EXCEPT !.max_arcs = new_max_arcs,
                            !.head = Resized(dg.head, new_max_arcs, fill)],
          ec |-> "OK"]
    ELSE [dg |-> dg, ec |-> "NO_MEMORY"]

StoreInit ==
    /\ BatchOff(MaxClabelMax) /\ SeedsOff /\ AllocOff
    /\ op_pc = "store"
    /\ operation = "none"
    /\ op_args = <<>>
    /\ out_dg \in [dg : StoreDigraphs, ec : {"none"}]
    /\ in_dgs = <<out_dg.dg>>

\* iscc_free_digraph(&dg), or iscc_free_digraph(NULL)
StFreeDigraph ==
    /\ op_pc = "store"
    /\ \E null_pointer \in BOOLEAN :
          /\ op_args' = [null_pointer |-> null_pointer]
          /\ out_dg' = [dg |-> IF null_pointer THEN out_dg.dg
                               ELSE iscc_free_digraph_value(out_dg.dg),
                        ec |-> "none"]
    /\ operation' = "free_digraph"
    /\ in_dgs' = <<out_dg.dg>>
    /\ UNCHANGED op_pc
    /\ UNCHANGED <<batchVars, seedVars, allocVars>>

\* iscc_change_arc_storage(&dg, new_max_arcs)
StChangeArcStorage ==
    /\ op_pc = "store"
    /\ iscc_digraph_is_initialized(out_dg.dg)
    /\ \E new_max_arcs \in 0 .. ISCC_ARCI_MAX + 1, realloc_ok \in BOOLEAN,
          fill \in 0 .. out_dg.dg.vertices - 1 :
          /\ op_args' = [new_max_arcs |-> new_max_arcs]
          /\ out_dg' = iscc_change_arc_storage(out_dg.dg, new_max_arcs, realloc_ok, fill)
    /\ operation' = "change_arc_storage"
    /\ in_dgs' = <<out_dg.dg>>
    /\ UNCHANGED op_pc
    /\ UNCHANGED <<batchVars, seedVars, allocVars>>

StoreNext ==
    \/ StFreeDigraph
    \/ StChangeArcStorage

SpecStore == StoreInit /\ [][StoreNext]_vars


(***************************************************************************)
(* Properties of the batch clusterer                                       *)
(***************************************************************************)

Returned == pc = "done"

ReturnedOK == pc = "done" /\ ec = "OK"

Members(l) == { p \in Points(args.n) : cluster_label[p] = l }

\* C3: after a successful run every cluster 0 .. num_clusters-1 holds at
\* least k data points in the final labelling.
C3_ClusterSize ==
    ReturnedOK => \A l \in 0 .. num_clusters - 1 : Cardinality(Members(l)) >= args.k

\* a successful run with one cluster of exactly k = 3 points, next to a point
\* in no cluster
C3_Witness ==
    /\ ReturnedOK
    /\ num_clusters = 1
    /\ args.k = 3
    /\ Cardinality(Members(0)) = 3
    /\ \E p \in Points(args.n) : cluster_label[p] = SCC_CLABEL_NA

\* the label a seed step has just used
NewLabel == next_cluster_label - 1

\* C4 as stated: after a seed step all k points of the candidate's row and
\* the candidate itself are marked assigned and carry the new label.
C4_AllRowPointsAssigned ==
    last_row # <<>> =>
        \A p \in last_row.firsts \cup {last_row.last, last_row.c} :
            assigned[p] /\ cluster_label[p] = NewLabel

\* C4 amended: after a seed step the candidate is the seed of the next
\* label; the candidate and the first k-1 points of its row are marked
\* assigned and carry the new label; the k-th point of the row is marked and
\* labelled as well when the candidate occurs in its own row and stays
\* unassigned otherwise; exactly k assigned points carry the new label.
C4_SeedStep ==
    last_row # <<>> =>
        /\ seeds_formed[Len(seeds_formed)] = last_row.c
        /\ Len(seeds_formed) = next_cluster_label
        /\ \A p \in last_row.firsts \cup {last_row.c} :
              assigned[p] /\ cluster_label[p] = NewLabel
        /\ (last_row.c \in last_row.firsts \cup {last_row.last}) =>
              (assigned[last_row.last] /\ cluster_label[last_row.last] = NewLabel)
        /\ (last_row.c \notin last_row.firsts \cup {last_row.last}) =>
              ~assigned[last_row.last]
        /\ Cardinality({ p \in Members(NewLabel) : assigned[p] }) = args.k

\* a seed step whose candidate is among the first k-1 points of its row
C4_Witness ==
    /\ last_row # <<>>
    /\ last_row.c \in last_row.firsts
    /\ args.k = 3

\* a seed step whose candidate is not in its own row
C4_RowWithoutCandidate ==
    /\ last_row # <<>>
    /\ last_row.c \notin last_row.firsts \cup {last_row.last}

C7_NumClustersBelowMax ==
    ReturnedOK => num_clusters < SCC_CLABEL_MAX

\* what the code keeps: no cluster label above SCC_CLABEL_MAX - 1 is used
C7_LabelsBelowMax ==
    /\ next_cluster_label <= SCC_CLABEL_MAX
    /\ ReturnedOK => num_clusters <= SCC_CLABEL_MAX
    /\ (Returned /\ ec = "TOO_LARGE_PROBLEM") => next_cluster_label = SCC_CLABEL_MAX

\* the scan of the run came to its end (part_001:310-324)
ScanEnded == pc = "done" /\ CheckArgs(args) = "OK" /\ ec \in {"OK", "NO_SOLUTION"}

\* C8: the run returns NO_SOLUTION exactly when its scan ends without any
\* seed, with num_clusters untouched; otherwise it returns OK and
\* num_clusters is the number of seeds formed.
C8_NoSolutionIffNoSeed ==
    ScanEnded =>
        /\ (ec = "NO_SOLUTION") <=> (seeds_formed = <<>>)
        /\ (ec = "NO_SOLUTION") => num_clusters = args.num_clusters_in
        /\ (ec = "OK") => num_clusters = Len(seeds_formed)

\* a scan that asked the oracle and ended without a seed
C8_Witness ==
    /\ ScanEnded
    /\ ec = "NO_SOLUTION"
    /\ search_done
    /\ seeds_formed = <<>>

\* C9: a call that violates a precondition returns before the oracle is
\* opened, with labels and num_clusters untouched, and the code is that of
\* the first violated precondition in the order of the checks: invalid
\* objects and k < 2 give INVALID_INPUT, n < k gives NO_SOLUTION, an unknown
\* method, a radius <= 0 under a radius constraint and an empty primary
\* list give INVALID_INPUT, a clustering that already has clusters gives
\* NOT_IMPLEMENTED.
C9_PreconditionErrors ==
    Returned =>
        LET a == args
            bad_objects == ~a.clustering_ok \/ ~a.data_set_ok
            bad_k == a.k < 2
            too_few == a.n < a.k
            bad_method == a.um \notin {"IGNORE", "ANY_NEIGHBOR"}
            bad_radius == a.radius_constraint /\ ~a.radius_positive
            bad_primary == (a.primary_supplied /\ a.len_primary = 0)
                           \/ (~a.primary_supplied /\ a.len_primary > 0)
            existing == a.num_clusters_in # 0
            invalid == bad_objects \/ bad_k
                       \/ (~too_few /\ (bad_method \/ bad_radius \/ bad_primary))
            violated == bad_objects \/ bad_k \/ too_few \/ bad_method \/ bad_radius
                        \/ bad_primary \/ existing
        IN  /\ invalid => ec = "INVALID_INPUT"
            /\ (~bad_objects /\ ~bad_k /\ too_few) => ec = "NO_SOLUTION"
            /\ (~invalid /\ ~too_few /\ existing) => ec = "NOT_IMPLEMENTED"
            /\ violated => /\ ~oracle_opened
                           /\ cluster_label = InitialLabels(a)
                           /\ num_clusters = a.num_clusters_in
            /\ ~violated => oracle_opened

\* a rejected call for a clustering that already has clusters
C9_Witness ==
    /\ Returned
    /\ ec = "NOT_IMPLEMENTED"
    /\ args.num_clusters_in = 1
    /\ ~oracle_opened
    /\ \A p \in Points(args.n) : cluster_label[p] = 0

FoundSeeds == fs_pc = "done" /\ fs_ec = "OK"

\* the closed neighbourhood of s in g
Closed(g, s) == {s} \cup Out(g, s)

\* C1: any two distinct seeds of the returned list have disjoint closed
\* neighbourhoods in the NNG, for each of the six methods (and so have the
\* seeds found so far at every point of the scan).
C1_SeedsDisjoint ==
    fs_pc \in {"scan", "update", "done"} =>
        \A i, j \in DOMAIN out_seeds.seeds :
            i # j => Closed(nng, out_seeds.seeds[i]) \cap Closed(nng, out_seeds.seeds[j]) = {}

\* the exclusion method with updating returns two seeds, and a vertex with
\* arcs that a seed has excluded is not a seed
C1_Witness ==
    /\ FoundSeeds
    /\ seed_method = "EXCLUSION_UPDATING"
    /\ nng.vertices = WideVertices
    /\ out_seeds.count = 2
    /\ \E v \in Vertices :
          /\ v \notin Range(out_seeds.seeds)
          /\ nng.tail_ptr[v] # nng.tail_ptr[v + 1]
          /\ \E i \in DOMAIN out_seeds.seeds :
                Closed(nng, v) \cap Closed(nng, out_seeds.seeds[i]) # {}

\* C2: no vertex without arcs in the NNG is ever in the seed list, for each
\* of the six methods.
C2_SeedsHaveArcs ==
    \A i \in DOMAIN out_seeds.seeds :
        nng.tail_ptr[out_seeds.seeds[i]] # nng.tail_ptr[out_seeds.seeds[i] + 1]

\* an exclusion scan returns seeds for an NNG in which a vertex without arcs
\* is in no seed's neighbourhood
C2_Witness ==
    /\ FoundSeeds
    /\ seed_method = "EXCLUSION_ORDER"
    /\ out_seeds.count >= 1
    /\ \E v \in Vertices :
          /\ nng.tail_ptr[v] = nng.tail_ptr[v + 1]
          /\ \A i \in DOMAIN out_seeds.seeds : v \notin Closed(nng, out_seeds.seeds[i])

\* the greedy reference: v from 0 up is chosen when it is outside the closed
\* neighbourhoods of the vertices chosen so far, has arcs, and none of its
\* arcs leads into these neighbourhoods
RECURSIVE GreedySeeds(_, _, _)
GreedySeeds(g, v, chosen) ==
    IF v = g.vertices THEN chosen
    ELSE LET marked == UNION { Closed(g, s) : s \in Range(chosen) }
         IN  IF v \notin marked /\ Out(g, v) # {} /\ Out(g, v) \cap marked = {}
             THEN GreedySeeds(g, v + 1, Append(chosen, v))
             ELSE GreedySeeds(g, v + 1, chosen)

\* the labels given by the seeds: the closed neighbourhood of the i-th seed
\* (counted from 0) has label i, every other vertex SCC_CLABEL_NA
LabelsOfSeeds(g, seeds) ==
    [v \in 0 .. g.vertices - 1 |->
        IF \E i \in DOMAIN seeds : v \in Closed(g, seeds[i])
        THEN (CHOOSE i \in DOMAIN seeds : v \in Closed(g, seeds[i])) - 1
        ELSE SCC_CLABEL_NA]

\* C10: the lexical method returns the seeds of the greedy reference; for
\* the NNG [{1},{0},{3},{2},{5},{4}] these are 0, 2, 4 with labels
\* 0,0,1,1,2,2 and for [{1,2},{0,2},{0,1},{4,5},{3,5},{3,4}] they are 0, 3 with
\* labels 0,0,0,1,1,1.
C10_LexicalIsGreedy ==
    (FoundSeeds /\ seed_method = "LEXICAL") =>
        /\ out_seeds.seeds = GreedySeeds(nng, 0, <<>>)
        /\ out_seeds.count = Len(out_seeds.seeds)
        /\ nng = PairsNNG =>
              /\ out_seeds.seeds = <<0, 2, 4>>
              /\ LabelsOfSeeds(nng, out_seeds.seeds) = ArrayOf(<<0, 0, 1, 1, 2, 2>>)
        /\ nng = TriplesNNG =>
              /\ out_seeds.seeds = <<0, 3>>
              /\ LabelsOfSeeds(nng, out_seeds.seeds) = ArrayOf(<<0, 0, 0, 1, 1, 1>>)

\* the lexical scan of [{1},{0},{3},{2},{5},{4}] has returned
C10_Witness ==
    /\ FoundSeeds
    /\ seed_method = "LEXICAL"
    /\ nng = PairsNNG
    /\ out_seeds.seeds = <<0, 2, 4>>

\* C11 as stated: on the cycle [{1},{2},{3},{0}] the lexical method returns
\* the single seed 0 and the labels are 0, 0, NA, NA.
C11_CycleSingleSeed ==
    (FoundSeeds /\ seed_method = "LEXICAL" /\ nng = CycleNNG) =>
        /\ out_seeds.seeds = <<0>>
        /\ LabelsOfSeeds(nng, out_seeds.seeds)
              = ArrayOf(<<0, 0, SCC_CLABEL_NA, SCC_CLABEL_NA>>)

\* C11: on the cycle [{1},{2},{3},{0}] the lexical method returns the seeds
\* 0 and 2 (when the scan reaches 2 neither 2 nor its neighbour 3 is marked),
\* so that labelling each seed's closed neighbourhood gives 0, 0, 1, 1.
C11_CycleTwoSeeds ==
    (FoundSeeds /\ seed_method = "LEXICAL" /\ nng = CycleNNG) =>
        /\ out_seeds.seeds = <<0, 2>>
        /\ out_seeds.count = 2
        /\ LabelsOfSeeds(nng, out_seeds.seeds) = ArrayOf(<<0, 0, 1, 1>>)

\* the lexical scan of the cycle has returned
C11_Witness ==
    /\ FoundSeeds
    /\ seed_method = "LEXICAL"
    /\ nng = CycleNNG
    /\ out_seeds.seeds # <<>>

(***************************************************************************)
(* Properties of the digraph operations                                    *)
(***************************************************************************)

\* a call of this operation with this many digraphs has returned
Called(op, n) == op_pc = "done" /\ operation = op /\ Len(in_dgs) = n

\* the same out-neighbours in every row
SameRowSets(g, h) ==
    /\ g.vertices = h.vertices
    /\ \A v \in 0 .. g.vertices - 1 : Out(g, v) = Out(h, v)

\* the rows of g without the loops
RowSetsWithoutLoops(g, h) ==
    /\ g.vertices = h.vertices
    /\ \A v \in 0 .. g.vertices - 1 : Out(h, v) = Out(g, v) \ {v}

UnionCommutes ==
    Called("union", 3) =>
        /\ SameRowSets(out_dg.ab.dg, out_dg.ba.dg)
        /\ SameRowSets(out_dg.ab_c.dg, out_dg.a_bc.dg)

\* C12 as stated: the union of the single digraph g has in every row the
\* out-neighbours of g, loops included, and union is commutative and
\* associative on the out-neighbour sets of the rows.
C12_UnionOfOneIsSame ==
    /\ Called("union", 1) => SameRowSets(in_dgs[1], out_dg.g.dg)
    /\ UnionCommutes

\* C12: the union of the single digraph g has in every row v the
\* out-neighbours of g other than v itself (the union writes no loop), and
\* union(g1, g2) and union(g2, g1), and union(union(g1, g2), g3) and
\* union(g1, union(g2, g3)), have the same out-neighbours in every row.
C12_UnionRows ==
    /\ Called("union", 1) => RowSetsWithoutLoops(in_dgs[1], out_dg.g.dg)
    /\ UnionCommutes

\* the union of a digraph with a loop has returned, and so have the unions of
\* three digraphs of which the first two differ in a row
C12_Witness ==
    \/ /\ Called("union", 1)
       /\ \E v \in 0 .. AlgVertices - 1 : v \in Out(in_dgs[1], v) /\ Out(out_dg.g.dg, v) # {}
    \/ /\ Called("union", 3)
       /\ ~SameRowSets(in_dgs[1], in_dgs[2])
       /\ \E v \in 0 .. PairVertices - 1 : Len(OutArcs(out_dg.ab_c.dg, v)) > 0

\* the first entries of row, at most d of them
FirstOf(row, d) == SubSeq(row, 1, IF Len(row) < d THEN Len(row) ELSE d)

NoArcs(g) == g.tail_ptr[g.vertices] = 0

\* C13 as stated: difference(g, empty, d) has in each row v the first
\* min(d, |out(v)|) entries of the row of g, and difference(g, g, d) has no
\* arcs.
C13_DifferenceTruncatesRows ==
    Called("difference", 1) =>
        /\ \A v \in 0 .. AlgVertices - 1 :
              OutArcs(out_dg.minus_empty.dg, v)
                = FirstOf(OutArcs(in_dgs[1], v), op_args.max_out_degree)
        /\ NoArcs(out_dg.minus_self.dg)

\* C13: difference(g, empty, d) has in each row v the first min(d, .) of the
\* entries of the row of g that are not v itself, in their order in g, and
\* difference(g, g, d) has no arcs.
C13_DifferenceRows ==
    Called("difference", 1) =>
        /\ \A v \in 0 .. AlgVertices - 1 :
              OutArcs(out_dg.minus_empty.dg, v)
                = FirstOf(SelectSeq(OutArcs(in_dgs[1], v), LAMBDA x : x # v),
                          op_args.max_out_degree)
        /\ NoArcs(out_dg.minus_self.dg)

\* a difference with max_out_degree 1 has cut a row of two arcs that are no
\* loops, in a digraph that also has a loop
C13_Witness ==
    /\ Called("difference", 1)
    /\ op_args.max_out_degree = 1
    /\ \E v \in 0 .. AlgVertices - 1 :
          /\ Len(OutArcs(in_dgs[1], v)) = 2
          /\ v \notin Out(in_dgs[1], v)
          /\ Len(OutArcs(out_dg.minus_empty.dg, v)) = 1
    /\ \E v \in 0 .. AlgVertices - 1 : v \in Out(in_dgs[1], v)

\* how often the row of v in g holds x
ArcCount(g, v, x) == Cardinality({ j \in DOMAIN OutArcs(g, v) : OutArcs(g, v)[j] = x })

\* the digraph [{1,2},{},{0}]
TransposeExample == DigraphOfSeq(<< <<1, 2>>, <<>>, <<0>> >>)

\* C14: transpose(g) holds the arc x -> v as often as g holds v -> x, so the
\* transpose of the transpose has in every row the out-neighbours of g; the
\* transpose of [{1,2},{},{0}] is [{2},{0},{0}].
C14_Transpose ==
    Called("transpose", 1) =>
        /\ out_dg.t.dg.vertices = in_dgs[1].vertices
        /\ \A v, x \in 0 .. AlgVertices - 1 :
              ArcCount(out_dg.t.dg, x, v) = ArcCount(in_dgs[1], v, x)
        /\ SameRowSets(in_dgs[1], out_dg.tt.dg)
        /\ in_dgs[1] = TransposeExample =>
              out_dg.t.dg = DigraphOfSeq(<< <<2>>, <<0>>, <<0>> >>)

\* the transpose of [{1,2},{},{0}] has been made, and so has the transpose of
\* a digraph that holds an arc twice and a loop
C14_Witness ==
    /\ Called("transpose", 1)
    /\ \/ in_dgs[1] = TransposeExample /\ Out(out_dg.t.dg, 0) = {2}
       \/ \E v, x \in 0 .. AlgVertices - 1 :
             /\ v # x
             /\ ArcCount(in_dgs[1], v, x) = 2
             /\ ArcCount(out_dg.t.dg, x, v) = 2

\* C15 as stated: the product of g and the identity digraph, with force_loops
\* and ignore_loops false, has in every row the out-neighbours of g, loops
\* included.
C15_ProductWithIdentityIsSame ==
    Called("adjacency_product", 1) => SameRowSets(in_dgs[1], out_dg.by_identity.dg)

\* C15: the product of g and the identity digraph, with force_loops and
\* ignore_loops false, has in every row v the out-neighbours of g other than
\* v itself.
C15_ProductWithIdentity ==
    Called("adjacency_product", 1) => RowSetsWithoutLoops(in_dgs[1], out_dg.by_identity.dg)

\* the product of the identity and a digraph with a loop and another arc in
\* the same row has been made
C15_Witness ==
    /\ Called("adjacency_product", 1)
    /\ ~op_args.force_loops /\ ~op_args.ignore_loops
    /\ \E v \in 0 .. AlgVertices - 1 :
          /\ v \in Out(in_dgs[1], v)
          /\ Out(in_dgs[1], v) # {v}
          /\ Out(out_dg.by_identity.dg, v) # {}

\* the conditions of a valid digraph
ValidDigraph(g) ==
    /\ g.tail_ptr[0] = 0
    /\ \A v \in 0 .. g.vertices - 1 : g.tail_ptr[v] <= g.tail_ptr[v + 1]
    /\ g.tail_ptr[g.vertices] <= g.max_arcs
    /\ \A i \in 0 .. g.tail_ptr[g.vertices] - 1 : g.head[i] \in 0 .. g.vertices - 1

\* C16: every digraph handed back by union, union_and_delete, difference,
\* transpose, adjacency_product or delete_loops has tail_ptr[0] = 0, tail_ptr
\* non-decreasing, tail_ptr[n] <= max_arcs and every head below tail_ptr[n] in
\* 0 .. n-1; and the arcs written never exceeded the arcs asked of
\* iscc_init_digraph before the writing pass.
C16_ResultsValid ==
    op_pc = "done" =>
        \A c \in DOMAIN out_dg :
            /\ ValidDigraph(out_dg[c].dg)
            /\ out_dg[c].dg.tail_ptr[out_dg[c].dg.vertices] <= out_dg[c].allocated

\* delete_loops has taken a loop out of a digraph with other arcs, which
\* leaves tail_ptr[n] below max_arcs; a transpose with arcs has been made
C16_Witness ==
    \/ /\ Called("delete_loops", 1)
       /\ out_dg.g.dg.tail_ptr[AlgVertices] > 0
       /\ out_dg.g.dg.tail_ptr[AlgVertices] < out_dg.g.dg.max_arcs
    \/ /\ Called("transpose", 1)
       /\ out_dg.t.dg.tail_ptr[AlgVertices] > 2

\* C17 as stated: no row of a digraph handed back by an operator holds the
\* same head twice, whatever valid digraphs were handed in.
C17_NoRepeatedHead ==
    op_pc = "done" => \A c \in DOMAIN out_dg : RowsNoRepeat(out_dg[c].dg)

\* C17: no row of a digraph handed back by union, union_and_delete or
\* adjacency_product holds the same head twice, whatever valid digraphs were
\* handed in; no row of a digraph handed back by difference, transpose or
\* delete_loops does when no row of the minuend, of in_dg, of dg does.
C17_NoRepeatedHeadKept ==
    (/\ op_pc = "done"
     /\ \/ operation \in {"union", "union_and_delete", "adjacency_product"}
        \/ RowsNoRepeat(in_dgs[1]))
    => \A c \in DOMAIN out_dg : RowsNoRepeat(out_dg[c].dg)

\* union_and_delete has been handed two digraphs with the same arc in a row
\* it keeps, one of them holding it twice, and has written it once
C17_Witness ==
    /\ Called("union_and_delete", 2)
    /\ \E v, x \in 0 .. PairVertices - 1 :
          /\ op_args.tails_to_keep[v]
          /\ ArcCount(in_dgs[1], v, x) = 2
          /\ ArcCount(in_dgs[2], v, x) = 1
          /\ ArcCount(out_dg.g.dg, v, x) = 1

(***************************************************************************)
(* Properties of the sort by inwards                                       *)
(***************************************************************************)

\* an updating scan is under way: sort holds its four arrays
SortLive == fs_pc \in {"scan", "update"} /\ Updating

\* where bucket k ends: at the start of bucket k + 1, the last bucket at the
\* end of sorted_vertices
BucketEnd(st, k) ==
    IF k + 1 \in DOMAIN st.bucket_index THEN st.bucket_index[k + 1]
    ELSE Cardinality(DOMAIN st.sorted_vertices)

InBucket(st, v, k) ==
    st.bucket_index[k] <= st.vertex_index[v] /\ st.vertex_index[v] < BucketEnd(st, k)

IndexOfEveryVertex ==
    \A v \in DOMAIN sort.vertex_index : sort.sorted_vertices[sort.vertex_index[v]] = v

BucketOf(v) ==
    \A k \in DOMAIN sort.bucket_index : InBucket(sort, v, k) <=> sort.inwards_count[v] = k

\* C18 as stated: after sort_by_inwards with make_indices and after every
\* decrease during an updating scan, every vertex v is at its index in
\* sorted_vertices, and lies in bucket k exactly if inwards_count[v] = k.
C18_SortOfAllVertices ==
    SortLive => IndexOfEveryVertex /\ \A v \in DOMAIN sort.vertex_index : BucketOf(v)

\* C18: after sort_by_inwards with make_indices and after every decrease
\* during an updating scan, every vertex v is at its index in sorted_vertices,
\* and every vertex at a position after the cursor of the scan lies in bucket k exactly if
\* inwards_count[v] = k.
C18_SortAheadOfCursor ==
    SortLive =>
        /\ IndexOfEveryVertex
        /\ \A v \in DOMAIN sort.vertex_index : sort.vertex_index[v] > sorted_v => BucketOf(v)

\* the counts the sort started from
InitialInwards ==
    iscc_fs_sort_by_inwards(IF seed_method = "EXCLUSION_UPDATING"
                            THEN iscc_fs_exclusion_graph(nng) ELSE nng, TRUE).inwards_count

\* a decrease has moved a vertex that the scan has not reached, and a vertex
\* at or before the cursor is outside the bucket of its count
C18_Witness ==
    /\ SortLive
    /\ \E w \in DOMAIN sort.vertex_index :
           /\ sort.vertex_index[w] > sorted_v
           /\ sort.inwards_count[w] < InitialInwards[w]
    /\ \E v \in DOMAIN sort.vertex_index :
           sort.vertex_index[v] <= sorted_v /\ ~BucketOf(v)

\* the count of the vertex at position q of sorted_vertices
CountAt(q) == sort.inwards_count[sort.sorted_vertices[q]]

ExaminedInwardsUpdating == Scanning /\ seed_method = "INWARDS_UPDATING"

\* C19 as stated: in the inwards_updating scan, whenever the vertex at cursor
\* position p is examined, its count is at least the count of every vertex at
\* a position before p.
C19_CursorCountIsLargest ==
    ExaminedInwardsUpdating => \A q \in 0 .. sorted_v - 1 : CountAt(sorted_v) >= CountAt(q)

\* C19: in the inwards_updating scan, whenever the vertex at cursor position p
\* is examined, the counts of the vertices from position p on are in
\* nondecreasing order, so its count is at most the count of every vertex at
\* a position after p.
C19_CursorCountIsSmallest ==
    ExaminedInwardsUpdating =>
        /\ \A q \in sorted_v .. nng.vertices - 2 : CountAt(q) <= CountAt(q + 1)
        /\ \A q \in sorted_v + 1 .. nng.vertices - 1 : CountAt(sorted_v) <= CountAt(q)

\* the examined vertex has been decreased below the count of a vertex examined
\* before it, and there are vertices after it
C19_Witness ==
    /\ ExaminedInwardsUpdating
    /\ sorted_v + 1 < nng.vertices
    /\ CountAt(sorted_v) < InitialInwards[CurrentVertex]
    /\ \E q \in 0 .. sorted_v - 1 : CountAt(q) > CountAt(sorted_v)

(***************************************************************************)
(* Properties of the buffers                                               *)
(***************************************************************************)

\* the buffer a successful call hands back
ResultBuffer == IF al_in.entry = "find_seeds" THEN "seeds" ELSE "out_dg"

\* the buffers the call allocated and still holds, the result of a success
\* apart
Unreleased ==
    { b \in Buffers : heap[b] = "live" } \ (IF al_ec = "OK" THEN {ResultBuffer} ELSE {})

\* the digraph the operator that has returned to a place of
\* iscc_fs_exclusion_graph was to make
OperatorMade ==
    [xg_product |-> "nng_transpose", xg_union |-> "nng_nng_transpose",
     xg_done |-> "exclusion_graph"]

\* an algebra operator called by iscc_fs_exclusion_graph has returned with
\* row_markers released and, after a failure, without a digraph
OperatorReleasedAll ==
    al_pc \in DOMAIN OperatorMade =>
        /\ heap["row_markers"] # "live"
        /\ al_ec # "OK" => heap[OperatorMade[al_pc]] # "live"

\* C20: with allocation failure possible at every allocation point, every
\* exit of iscc_find_seeds and of each algebra operator has released every
\* buffer the call allocated, except the result handed back on success, and
\* no path goes on with a buffer that was freed or never allocated.
C20_EveryExitReleasesAll ==
    /\ al_pc = "returned" => Unreleased = {}
    /\ OperatorReleasedAll
    /\ al_pc # "off" => misused = {}

\* the entry points other than the exclusion methods release all and misuse
\* nothing
OtherEntriesReleaseAll ==
    (al_pc # "off" /\ ~AlExclusion) =>
        /\ misused = {}
        /\ al_pc = "returned" => Unreleased = {}

\* an exclusion method that misuses nothing leaves at most
\* tmp_index_not_excluded behind
ExclusionLeavesTmpIndex ==
    (al_pc = "returned" /\ misused = {}) => Unreleased \subseteq {"tmp_index_not_excluded"}

\* C21: whenever iscc_find_seeds or an algebra operator returns an error, its
\* out-parameter is the null value of its type: the seed result has a null
\* seeds pointer and no count of seeds, the output digraph is the null
\* digraph.
C21_ErrorLeavesOutNull ==
    /\ (al_pc = "returned" /\ al_ec # "OK") =>
           /\ heap[ResultBuffer] = "null"
           /\ al_in.entry = "find_seeds" => al_seeds.count = 0
    /\ (al_pc \in DOMAIN OperatorMade /\ al_ec # "OK") =>
           heap[OperatorMade[al_pc]] = "null"

\* after an error the out-parameter never holds a buffer
ErrorHandsBackNoBuffer ==
    (al_pc = "returned" /\ al_ec # "OK") => heap[ResultBuffer] # "live"

\* an operator handed a null out_dg has left it null after an error
ErrorKeepsNullDigraph ==
    (al_pc = "returned" /\ al_ec # "OK" /\ al_in.entry # "find_seeds"
        /\ al_in.out_dg = "null") => heap["out_dg"] = "null"

(***************************************************************************)
(* Properties of the digraph store                                         *)
(***************************************************************************)

\* C22: iscc_free_digraph applied to any digraph value leaves it equal to the
\* null digraph, applying it again changes nothing, and a null pointer
\* argument is a no-op.
C22_FreeResetsToNull ==
    (op_pc = "store" /\ operation = "free_digraph") =>
        IF op_args.null_pointer THEN out_dg.dg = in_dgs[1]
        ELSE /\ out_dg.dg = ISCC_NULL_DIGRAPH
             /\ iscc_free_digraph_value(out_dg.dg) = out_dg.dg

\* a digraph with max_arcs above 0 and no head has been freed
C22_Witness ==
    /\ op_pc = "store" /\ operation = "free_digraph" /\ ~op_args.null_pointer
    /\ in_dgs[1].max_arcs > 0
    /\ in_dgs[1].head = NULL
    /\ in_dgs[1].tail_ptr # NULL

\* C23: iscc_change_arc_storage never changes vertices or tail_ptr; with a
\* capacity above the arc-index limit it returns TOO_LARGE_DIGRAPH and leaves
\* max_arcs and head as they were; on success max_arcs is the new capacity
\* and head is present exactly if the new capacity is above 0.
C23_ChangeArcStorageFrame ==
    (op_pc = "store" /\ operation = "change_arc_storage") =>
        /\ out_dg.dg.vertices = in_dgs[1].vertices
        /\ out_dg.dg.tail_ptr = in_dgs[1].tail_ptr
        /\ op_args.new_max_arcs > ISCC_ARCI_MAX =>
               (out_dg.ec = "TOO_LARGE_DIGRAPH" /\ out_dg.dg = in_dgs[1])
        /\ out_dg.ec = "OK" =>
               /\ out_dg.dg.max_arcs = op_args.new_max_arcs
               /\ out_dg.dg.head # NULL <=> op_args.new_max_arcs > 0

\* the arc storage of a digraph with arcs has been taken away
C23_Witness ==
    /\ op_pc = "store" /\ operation = "change_arc_storage"
    /\ out_dg.ec = "OK"
    /\ op_args.new_max_arcs = 0
    /\ in_dgs[1].max_arcs > 0

(***************************************************************************)
(* Properties of the exclusion graph and of the seeds                      *)
(***************************************************************************)

\* iscc_findseeds_exclusion has built the exclusion graph and its scan has
\* not looked at a vertex yet
ExclusionGraphBuilt ==
    /\ fs_pc = "scan"
    /\ sorted_v = 0
    /\ seed_method \in {"EXCLUSION_ORDER", "EXCLUSION_UPDATING"}

\* the closed neighborhoods of u and v in nng intersect
NeighborhoodsMeet(u, v) ==
    \/ u = v
    \/ u \in Out(nng, v)
    \/ v \in Out(nng, u)
    \/ Out(nng, u) \cap Out(nng, v) # {}

\* C24: in the exclusion graph X of an NNG g, the row of a vertex v with arcs
\* in g holds exactly the vertices u other than v whose closed neighborhood
\* in g meets that of v, and the row of a vertex without arcs in g is empty.
C24_ExclusionGraphRows ==
    ExclusionGraphBuilt =>
        \A v \in Vertices :
            Out(exclusion_graph, v) =
                IF Out(nng, v) = {} THEN {}
                ELSE { u \in Vertices \ {v} : NeighborhoodsMeet(u, v) }

\* an exclusion graph with an arc between two vertices that only share a
\* neighbor, built from an NNG with a vertex without arcs that has an arc
\* pointing to it
C24_Witness ==
    /\ ExclusionGraphBuilt
    /\ \E u, v \in Vertices :
           /\ u # v /\ u \notin Out(nng, v) /\ v \notin Out(nng, u)
           /\ Out(nng, u) \cap Out(nng, v) # {}
           /\ u \in Out(exclusion_graph, v)
    /\ \E u, v \in Vertices : Out(nng, u) = {} /\ u \in Out(nng, v)

\* the order iscc_fs_sort_by_inwards gave the vertices
InitialSorted ==
    iscc_fs_sort_by_inwards(IF seed_method = "EXCLUSION_UPDATING"
                            THEN iscc_fs_exclusion_graph(nng) ELSE nng, TRUE).sorted_vertices

\* C25: during every updating scan the calls of iscc_fs_decrease_v_in_sort
\* leave sorted_vertices at the positions up to the cursor as they were and
\* keep it a permutation of the vertices: the vertices examined are the ones
\* at the positions passed, in order, and a scan that ends has examined every
\* vertex exactly once.
C25_ExaminedOnce ==
    /\ SortLive =>
           /\ DOMAIN sort.sorted_vertices = Vertices
           /\ Range(sort.sorted_vertices) = Vertices
           /\ Len(examined) = IF fs_pc = "update" THEN sorted_v + 1 ELSE sorted_v
           /\ \A i \in 1 .. Len(examined) : examined[i] = sort.sorted_vertices[i - 1]
    /\ (fs_pc = "done" /\ fs_ec = "OK" /\ Updating) =>
           /\ Len(examined) = nng.vertices
           /\ Range(examined) = Vertices

\* decreases have changed the order of the vertices not yet examined, after
\* the scan has passed two vertices
C25_Witness ==
    /\ SortLive
    /\ fs_pc = "update"
    /\ sorted_v >= 1
    /\ \E p \in Vertices : p > sorted_v /\ sort.sorted_vertices[p] # InitialSorted[p]

\* the vertex the decreasing loops hand to iscc_fs_decrease_v_in_sort next
NextDecreased == OutArcs(UpdateGraph, upd.outer[NextPlace[1]])[NextPlace[2]]

\* what iscc_fs_debug_check_sort asserts of the positions q and q + 1
InOrder(q) ==
    \/ CountAt(q) < CountAt(q + 1)
    \/ /\ CountAt(q) = CountAt(q + 1)
       /\ stable_findseed => sort.sorted_vertices[q] < sort.sorted_vertices[q + 1]

\* C26: in every updating scan, at the start of each scan step the vertices
\* from the cursor to the end of sorted_vertices are in non-decreasing order
\* of their count, in a stable build vertices of equal count in increasing
\* order of their id; and the vertex iscc_fs_decrease_v_in_sort swaps with
\* has the count the decreased vertex has before the decrease.
C26_SortedFromCursor ==
    /\ (Scanning /\ Updating) => \A q \in sorted_v .. nng.vertices - 2 : InOrder(q)
    /\ (SortLive /\ fs_pc = "update" /\ DecreasePlaces # {}) =>
           CountAt(MoveTo(NextDecreased, sort, sorted_v)) = sort.inwards_count[NextDecreased]

\* a scan step of a stable build starts after a decrease, with two vertices
\* of equal count among those not yet examined
C26_Witness ==
    /\ Scanning /\ Updating /\ stable_findseed
    /\ sorted_v >= 1
    /\ \E w \in Vertices :
           /\ sort.vertex_index[w] >= sorted_v
           /\ sort.inwards_count[w] < InitialInwards[w]
    /\ \E q \in sorted_v .. nng.vertices - 2 : CountAt(q) = CountAt(q + 1)

\* C27: in the three updating methods, on a valid NNG without repeated arcs in
\* a row, every call of iscc_fs_decrease_v_in_sort is made on a vertex after
\* the cursor whose count is at least 1: no count goes below 0 and no call
\* reaches outside bucket_index.
C27_DecreaseInBounds ==
    /\ fs_pc # "undefined"
    /\ SortLive => \A v \in Vertices : sort.inwards_count[v] >= 0
    /\ (SortLive /\ fs_pc = "update" /\ DecreasePlaces # {}) =>
           /\ sort.vertex_index[NextDecreased] > sorted_v
           /\ sort.inwards_count[NextDecreased] >= 1
           /\ DecreaseDefined(NextDecreased, sort, sorted_v, stable_findseed)

\* a vertex that has been decreased before is about to be decreased to 0
C27_Witness ==
    /\ SortLive /\ fs_pc = "update" /\ DecreasePlaces # {}
    /\ sort.inwards_count[NextDecreased] = 1
    /\ InitialInwards[NextDecreased] >= 2

(***************************************************************************)
(* Properties of the two passes of the digraph operations.                 *)
(***************************************************************************)

TwoPassOperations == {"union", "union_and_delete", "difference", "adjacency_product"}

\* the arcs the writing pass of a call wrote
Written(made) == made.dg.tail_ptr[made.dg.vertices]

\* C28: for union, union_and_delete, difference and adjacency_product the
\* pass without writing returns the number of arcs the writing pass writes
\* on the same inputs, that number is at most the greedy count, so the
\* buffer has room for the writing pass on both paths, and the digraph handed
\* back has max_arcs = tail_ptr[n].
C28_CountingPassIsExact ==
    (op_pc = "done" /\ operation \in TwoPassOperations) =>
        \A c \in DOMAIN out_dg :
            /\ op_args.first_init_fails => out_dg[c].counted = Written(out_dg[c])
            /\ Written(out_dg[c]) <= out_dg[c].greedy
            /\ Written(out_dg[c]) <= out_dg[c].allocated
            /\ out_dg[c].dg.max_arcs = Written(out_dg[c])

\* a union of two digraphs went through the pass without writing, which
\* counted some arcs but fewer than the greedy count
C28_Witness ==
    /\ op_pc = "done" /\ operation = "union" /\ Len(in_dgs) = 3
    /\ op_args.first_init_fails
    /\ out_dg.ab.counted > 0
    /\ out_dg.ab.counted < out_dg.ab.greedy

(***************************************************************************)
(* Properties of the loop over the batches.                                *)
(***************************************************************************)

\* C29: for every n >= k, every batch size of at least 1 and every sequence
\* of answers of the oracle, the loop over the batches of
\* iscc_run_nng_batches comes to its end (the code after the loop, or a
\* return with an error), and every point is handed to the oracle as a query
\* at most once.
C29_BatchLoopTerminates ==
    /\ [](pc = "fill" => <>(pc \in {"finish", "done"}))
    /\ [](\A p \in DOMAIN queried : queried[p] <= 1)

\* the loop has ended after one batch for each of NumPoints points
C29_Witness ==
    /\ pc = "finish"
    /\ args.n = NumPoints
    /\ ClampBatchSize(args) = 1
    /\ \A p \in Points(args.n) : queried[p] = 1

(***************************************************************************)
(* Properties of the returned seeds.                                       *)
(***************************************************************************)

\* C30: for each of the six methods and every valid NNG, the seeds returned
\* are maximal: the closed neighborhood of every vertex with arcs that is
\* not a seed meets the closed neighborhood of a returned seed.
C30_SeedsMaximal ==
    FoundSeeds =>
        \A v \in Vertices :
            (Out(nng, v) # {} /\ v \notin Range(out_seeds.seeds)) =>
                \E s \in Range(out_seeds.seeds) :
                    Closed(nng, v) \cap Closed(nng, s) # {}

\* two seeds are returned, and a vertex with arcs that is in no seed's closed
\* neighborhood has an arc into one
C30_Witness ==
    /\ FoundSeeds
    /\ out_seeds.count >= 2
    /\ \E v \in Vertices :
           /\ Out(nng, v) # {}
           /\ \A s \in Range(out_seeds.seeds) : v \notin Closed(nng, s)
           /\ \E s \in Range(out_seeds.seeds) : Out(nng, v) \cap Closed(nng, s) # {}

====
